---- MODULE Spec2Model ----
(***************************************************************************)
(* The per-table storage engine of ProjectDB (src/src/table.ts,            *)
(* class OptimaTable): the schema-validated write path (Insert, Update,    *)
(* Delete), the per-column equality indexes, the Get filter and the        *)
(* dirty-tracking persistence bookkeeping.                                 *)
(*                                                                         *)
(* JavaScript values are modelled as strings: "1", "2" are the integers    *)
(* 1 and 2, "x" is a string that is neither an integer nor an e-mail       *)
(* address, "a@b.com" is a string matching the e-mail pattern, NULL is     *)
(* null and UNDEF is undefined.  A row (and a Matches or Values map) is a  *)
(* function whose DOMAIN is the set of own keys of the object, so a key    *)
(* that is present with the value undefined differs from an absent key.    *)
(* Row positions are the 0-based JavaScript array positions.               *)
(***************************************************************************)
EXTENDS Integers, Sequences, FiniteSets, TLC

\* ---------------------------------------------------------------- bounds
MaxRows == 2        \* rows the table may hold (guard of Insert)
MaxChanges == 7     \* cap of _changeCount between two flushes (guard)
MaxListeners == 2   \* registrations of listeners at one time (guard of on)
MaxSaves == 2       \* Save() calls suspended at the same time (guard)
MaxTicks == 2       \* clock ticks of timeThresholdMs / 2 (guard of Tick)

\* ------------------------------------------------------ program constants
changeThreshold == 100
timeThresholdMs == 5000

\* ---------------------------------------------------------------- values
UNDEF == "undefined"
NULL == "null"
IntVals == {"1", "2"}
EmailVals == {"a@b.com"}
StringVals == {"x"} \cup EmailVals
INFINITY == "Infinity"
FloatVals == IntVals \cup {INFINITY}
Vals == IntVals \cup StringVals \cup {INFINITY, NULL, UNDEF}

ColumnSeq == <<"ID", "Email">>
Cols == {ColumnSeq[i] : i \in 1..Len(ColumnSeq)}
BogusKey == "Bogus"

\* TypeChecker[Type](val)
TypeChecker(type, val) ==
    CASE type = "INT" -> val \in IntVals
      [] type = "EMAIL" -> val \in EmailVals
      [] type = "TEXT" -> val \in StringVals
      [] type = "FLOAT" -> val \in FloatVals
      [] OTHER -> TRUE

\* NotNull is "true", "false" or UNDEF (the optional field of SchemaField);
\* Default is UNDEF when the field declares none; HasEnum tells whether
\* the field has an Enum list.
Field(type, notNull, default, hasEnum, enum) ==
    [Type |-> type, NotNull |-> notNull, Default |-> default,
     HasEnum |-> hasEnum, Enum |-> enum]

\* Users{ID: INT notNull, Email: EMAIL}
SchemaUsers ==
    [ID |-> Field("INT", "true", UNDEF, FALSE, {}),
     Email |-> Field("EMAIL", UNDEF, UNDEF, FALSE, {})]

\* Users{ID: INT notNull enum [1], Email: EMAIL nullable}
SchemaEnum ==
    [ID |-> Field("INT", "true", UNDEF, TRUE, {"1"}),
     Email |-> Field("EMAIL", "false", UNDEF, FALSE, {})]

Schemas == {SchemaUsers, SchemaEnum}

\* Users{ID: INT notNull default 1, Email: EMAIL default a@b.com}
SchemaDefault ==
    [ID |-> Field("INT", "true", "1", FALSE, {}),
     Email |-> Field("EMAIL", UNDEF, "a@b.com", FALSE, {})]

\* Users{ID: FLOAT notNull, Email: EMAIL}
SchemaFloat ==
    [ID |-> Field("FLOAT", "true", UNDEF, FALSE, {}),
     Email |-> Field("EMAIL", UNDEF, UNDEF, FALSE, {})]

\* _Name of the table under study, and the table that references it
Name == "Users"
NoReference == [Table |-> UNDEF, Field |-> UNDEF, Type |-> UNDEF]

\* Profile{UserID: INT reference Users.ID, Bio: TEXT}
SchemaProfile(type) ==
    [UserID |-> [Reference |-> [Table |-> Name, Field |-> "ID", Type |-> type]],
     Bio |-> [Reference |-> NoReference]]

\* DBSchema.Tables of the databases the table is opened in
DBSchemas ==
    {[Users |-> SchemaUsers, Profile |-> SchemaProfile("ONE")],
     [Users |-> SchemaUsers, Profile |-> SchemaProfile("MANY")],
     [Users |-> SchemaEnum, Profile |-> SchemaProfile("ONE")]}

\* the rows held by the Profile table: two for user 1, none for user 2
ProfileRows ==
    <<[UserID |-> "1", Bio |-> "x"], [UserID |-> "1", Bio |-> "y"]>>

\* one relationship per other table with a field that references Name
\* Object.keys of a table of the schema document: its fields in the order
\* the document lists them
KeyOrder ==
    <<"ID", "Email", "UserID", "Bio", "Buyer", "Seller", "Author", "Subject">>
ObjectKeys(fields) == SelectSeq(KeyOrder, LAMBDA key : key \in DOMAIN fields)

\* the relationship set for a referring field
Relationship(ref, elem) ==
    [myColumn |-> ref.Field, targetColumn |-> elem,
     referenceType |-> IF ref.Type = UNDEF THEN "ONE" ELSE ref.Type]

precalculateFirstField(DBSchema) ==
    LET Refers(table, elem) ==
            /\ DBSchema[table][elem].Reference # NoReference
            /\ DBSchema[table][elem].Reference.Table = Name
        Referring == {table \in (DOMAIN DBSchema) \ {Name} :
                         \E elem \in DOMAIN DBSchema[table] : Refers(table, elem)}
    IN  [table \in Referring |->
            LET TableFields ==
                    SelectSeq(ObjectKeys(DBSchema[table]),
                              LAMBDA e : Refers(table, e))
                elem == TableFields[1]
            IN  Relationship(DBSchema[table][elem].Reference, elem)]

\* TableFields.forEach sets the entry of the table for each referring
\* field in turn: the last one stays
precalculateExtendRelationships(DBSchema) ==
    LET Refers(table, elem) ==
            /\ DBSchema[table][elem].Reference # NoReference
            /\ DBSchema[table][elem].Reference.Table = Name
        Referring == {table \in (DOMAIN DBSchema) \ {Name} :
                         \E elem \in DOMAIN DBSchema[table] : Refers(table, elem)}
    IN  [table \in Referring |->
            LET TableFields ==
                    SelectSeq(ObjectKeys(DBSchema[table]),
                              LAMBDA e : Refers(table, e))
                elem == TableFields[Len(TableFields)]
            IN  Relationship(DBSchema[table][elem].Reference, elem)]

Truthy(b) == b = "true"

\* row[key] of a JavaScript object: undefined when the key is absent
Prop(row, key) == IF key \in DOMAIN row THEN row[key] ELSE UNDEF

\* obj with obj[key] = val assigned
Assign(obj, key, val) ==
    [k \in (DOMAIN obj) \cup {key} |-> IF k = key THEN val ELSE obj[k]]

EmptyObj == [k \in {} |-> UNDEF]

\* ------------------------------------------------------------ Row Validator
RECURSIVE FillValuesNoDefault(_, _, _, _)
FillValuesNoDefault(Values, schema, i, row) ==
    IF i > Len(ColumnSeq) THEN row
    ELSE LET key == ColumnSeq[i]
             field == schema[key]
         IN  IF key \in DOMAIN Values
                 THEN FillValuesNoDefault(Values, schema, i + 1,
                                          Assign(row, key, Values[key]))
             ELSE IF field.NotNull = "false"
                 THEN FillValuesNoDefault(Values, schema, i + 1,
                                          Assign(row, key, NULL))
             ELSE FillValuesNoDefault(Values, schema, i + 1, row)

RECURSIVE FillValues(_, _, _, _)
FillValues(Values, schema, i, row) ==
    IF i > Len(ColumnSeq) THEN row
    ELSE LET key == ColumnSeq[i]
             field == schema[key]
         IN  IF key \in DOMAIN Values
                 THEN FillValues(Values, schema, i + 1, Assign(row, key, Values[key]))
             ELSE IF field.Default # UNDEF
                 THEN FillValues(Values, schema, i + 1, Assign(row, key, field.Default))
             ELSE IF field.NotNull = "false"
                 THEN FillValues(Values, schema, i + 1, Assign(row, key, NULL))
             ELSE FillValues(Values, schema, i + 1, row)

ValueFails(field, value) ==
    \/ ~TypeChecker(field.Type, value)
    \/ field.HasEnum /\ value \notin field.Enum

\* InsertChecker: [ok |-> FALSE] stands for the null / false results
InsertCheckerNoTypeCheck(Values, schema) ==
    IF \E key \in DOMAIN Values : key \notin Cols THEN [ok |-> FALSE]
    ELSE LET rowToInsert == FillValues(Values, schema, 1, EmptyObj)
         IN  IF \E key \in Cols :
                    Prop(rowToInsert, key) \in {UNDEF, NULL} /\ Truthy(schema[key].NotNull)
             THEN [ok |-> FALSE]
             ELSE [ok |-> TRUE, row |-> rowToInsert]

InsertChecker(Values, schema) ==
    IF \E key \in DOMAIN Values : key \notin Cols THEN [ok |-> FALSE]
    ELSE LET rowToInsert == FillValues(Values, schema, 1, EmptyObj)
             Bad(key) ==
                 LET value == Prop(rowToInsert, key)
                 IN  IF value = UNDEF THEN Truthy(schema[key].NotNull)
                     ELSE IF value = NULL THEN Truthy(schema[key].NotNull)
                     ELSE ValueFails(schema[key], value)
         IN  IF \E key \in Cols : Bad(key) THEN [ok |-> FALSE]
             ELSE [ok |-> TRUE, row |-> rowToInsert]

UpdateCheckerNoNotNull(Values, schema) ==
    LET Bad(key) ==
            \/ key \notin Cols
            \/ /\ Values[key] \notin {UNDEF, NULL}
               /\ ValueFails(schema[key], Values[key])
    IN  ~ \E key \in DOMAIN Values : Bad(key)

\* UpdateChecker: TRUE when it returns Values, FALSE for null / false
UpdateChecker(Values, schema) ==
    LET Bad(key) ==
            \/ key \notin Cols
            \/ /\ Values[key] = NULL
               /\ Truthy(schema[key].NotNull)
            \/ /\ Values[key] \notin {UNDEF, NULL}
               /\ ValueFails(schema[key], Values[key])
    IN  ~ \E key \in DOMAIN Values : Bad(key)


\* ------------------------------------------------------------------ state
VARIABLES
    Schema,            \* _Schema, set once before LoadSync
    listeners,         \* _listeners: event -> the listeners, in order
    extendRelationships, \* _extendRelationships: table -> relationship
    TablesRef,         \* _TablesRef: the rows of the other tables
    Data,              \* the row sequence
    indexes,           \* _indexes: column -> (value -> positions)
    dirty,             \* _dirty
    changeCount,       \* _changeCount
    lastSaveTime,      \* _lastSaveTime
    pendingSaveTimer,  \* _pendingSaveTimer: NoTimer or the time it is due
    timers,            \* the timeouts set and neither run nor cleared: due times
    now,               \* Date.now()
    disk,              \* the table file: the parsed JSON array it holds
    saves,             \* the Save() calls suspended at an await
    call,              \* the last call made on the table, with its arguments
    ret,               \* what that call returned or raised
    events,            \* the payloads that call passed to emit, in order
    heard,             \* the listeners that call invoked, in order
    pristine           \* per row: returned by Insert and not updated since

vars == <<Schema, listeners, extendRelationships, TablesRef, Data, indexes, dirty,
          changeCount, lastSaveTime, pendingSaveTimer, timers, now, disk, saves,
          call, ret, events, heard, pristine>>

NoTimer == -1

\* The fields of the table an operation reads and writes, threaded through
\* the steps of one handler.
Self == [Data |-> Data, indexes |-> indexes, dirty |-> dirty,
         changeCount |-> changeCount, pendingSaveTimer |-> pendingSaveTimer,
         timers |-> timers,
         listeners |-> listeners]

Max(a, b) == IF a >= b THEN a ELSE b

\* 0-based element of an array, undefined when out of range
UndefRow == [k \in {UNDEF} |-> UNDEF]
At(arr, i) == IF i >= 0 /\ i < Len(arr) THEN arr[i + 1] ELSE UndefRow

\* Array.prototype.indexOf: first 0-based position of x, -1 when absent
IndexOf(arr, x) ==
    IF \E i \in 1..Len(arr) : arr[i] = x
    THEN (CHOOSE i \in 1..Len(arr) :
              arr[i] = x /\ \A j \in 1..(i - 1) : arr[j] # x) - 1
    ELSE -1

\* arr.splice(i, 1)
Splice1(arr, i) ==
    [j \in 1..(Len(arr) - 1) |-> IF j <= i THEN arr[j] ELSE arr[j + 1]]

\* arr.slice(start, end) with end = -1 for undefined
JsSlice(arr, start, end) ==
    LET stop == IF end = -1 \/ end > Len(arr) THEN Len(arr) ELSE end
    IN  IF start >= stop THEN <<>>
        ELSE [j \in 1..(stop - start) |-> arr[start + j]]

\* "Handle Offset and Limit safely" of Get, Update and Delete
SafeSliceNoOffset(arr, options) ==
    LET safeLimit ==
            IF "Limit" \in DOMAIN options /\ options.Limit > 0
            THEN options.Limit ELSE -1
    IN  JsSlice(arr, 0, safeLimit)

SafeSlice(arr, options) ==
    LET safeOffset ==
            IF "Offset" \in DOMAIN options /\ options.Offset >= 0
            THEN options.Offset ELSE 0
        safeLimit ==
            IF "Limit" \in DOMAIN options /\ options.Limit > 0
            THEN safeOffset + options.Limit ELSE -1
    IN  JsSlice(arr, safeOffset, safeLimit)

\* Object.entries(Matches).every(([key, value]) => row[key] === value)
MatchesRow(Matches, row) ==
    \A key \in DOMAIN Matches : Prop(row, key) = Matches[key]

\* arr.filter(keep) on the 1-based positions of arr
RECURSIVE FilterPos(_, _, _)
FilterPos(arr, Keep(_), i) ==
    IF i > Len(arr) THEN <<>>
    ELSE IF Keep(arr[i]) THEN <<i>> \o FilterPos(arr, Keep, i + 1)
    ELSE FilterPos(arr, Keep, i + 1)

\* --------------------------------------------------------- Persistence Policy
\* scheduleTimeBasedSave without if (this._pendingSaveTimer) return
scheduleTimeBasedSaveAgain(t) ==
    IF ~t.dirty THEN t
    ELSE LET elapsedSinceLastSave == now - lastSaveTime
             delay == Max(0, timeThresholdMs - elapsedSinceLastSave)
         IN  [t EXCEPT !.pendingSaveTimer = now + delay,
                       !.timers = Append(@, now + delay)]

\* scheduleTimeBasedSave(): a one-shot timeout, when the table is dirty
\* and none is set
scheduleTimeBasedSave(t) ==
    IF ~t.dirty THEN t
    ELSE IF t.pendingSaveTimer # NoTimer THEN t
    ELSE LET elapsedSinceLastSave == now - lastSaveTime
             delay == Max(0, timeThresholdMs - elapsedSinceLastSave)
         IN  [t EXCEPT !.pendingSaveTimer = now + delay,
                       !.timers = Append(@, now + delay)]

\* markDirty without this._changeCount++
markDirtyFlagOnly(t) ==
    scheduleTimeBasedSave([t EXCEPT !.dirty = TRUE])

\* markDirty(): one more change since the last flush
markDirty(t) ==
    scheduleTimeBasedSave([t EXCEPT !.dirty = TRUE,
                                    !.changeCount = t.changeCount + 1])

checkAutoSaveIgnoresCount(t, force) ==
    IF ~t.dirty /\ ~force THEN FALSE
    ELSE force \/ now - lastSaveTime >= timeThresholdMs

\* checkAutoSave(force) up to its await: TRUE when it calls Save()
checkAutoSave(t, force) ==
    IF ~t.dirty /\ ~force THEN FALSE
    ELSE LET countReached == t.changeCount >= changeThreshold
             timeReached == now - lastSaveTime >= timeThresholdMs
         IN  force \/ countReached \/ timeReached

\* ----------------------------------------------------------- Index Manager
EmptyIndex == [v \in Vals |-> <<>>]

RECURSIVE buildIndexesFrom(_, _, _)
buildIndexesFrom(data, i, idx) ==
    IF i >= Len(data) THEN idx
    ELSE buildIndexesFrom(data, i + 1,
             [column \in Cols |->
                 LET value == Prop(data[i + 1], column)
                 IN  [idx[column] EXCEPT ![value] = Append(@, i)]])

buildIndexes(data) == buildIndexesFrom(data, 0, [column \in Cols |-> EmptyIndex])

getByIndex(idx, column, value) ==
    IF column \notin DOMAIN idx THEN <<>> ELSE idx[column][value]

\* indices.splice(indices.indexOf(rowIndex), 1) when present
RemovePos(indices, rowIndex) ==
    LET i == IndexOf(indices, rowIndex)
    IN  IF i > -1 THEN Splice1(indices, i) ELSE indices

updateIndexForColumn(t, operation, column, rowIndex, oldValue, newValue) ==
    IF column \notin DOMAIN t.indexes THEN t
    ELSE LET bucket == t.indexes[column]
             newBucket ==
                 CASE operation = "insert" ->
                        LET value == Prop(At(t.Data, rowIndex), column)
                        IN  IF value # UNDEF
                            THEN [bucket EXCEPT ![value] = Append(@, rowIndex)]
                            ELSE bucket
                   [] operation = "update" ->
                        LET removed ==
                                IF oldValue # UNDEF
                                THEN [bucket EXCEPT ![oldValue] = RemovePos(@, rowIndex)]
                                ELSE bucket
                        IN  IF newValue # UNDEF
                            THEN [removed EXCEPT ![newValue] = Append(@, rowIndex)]
                            ELSE removed
                   [] operation = "delete" ->
                        [bucket EXCEPT ![oldValue] = RemovePos(@, rowIndex)]
         IN  markDirty([t EXCEPT !.indexes[column] = newBucket])


\* ------------------------------------------------------------------ Events
EventTypes == {"insert", "update", "delete", "get"}

\* two listener functions: one throws whenever it is invoked, one returns
Listeners == {"thrower", "logger"}
ListenerError == "listener error"
NoListeners == [e \in EventTypes |-> <<>>]

\* listener(payload): what the listener throws, UNDEF when it returns
Invoke(listener) == IF listener = "thrower" THEN ListenerError ELSE UNDEF

Rethrown(thrown) == thrown

\* catch (_) { }: what leaves the try statement
Caught(thrown) == UNDEF

\* the onceWrapper that once(event, listener) registers
OnceWrapper(listener) == "once:" \o listener

\* the listener function an entry of the Set invokes
Wrapped(entry) ==
    IF entry \in Listeners THEN entry
    ELSE CHOOSE listener \in Listeners : OnceWrapper(listener) = entry

\* _listeners after off(event, listener), and after off(event) when
\* listener is UNDEF: the Set holds the entry itself or nothing of it
offListener(map, event, listener) ==
    [map EXCEPT ![event] = IF listener = UNDEF THEN <<>>
                           ELSE SelectSeq(@, LAMBDA entry : entry # listener)]

\* for (const listener of Array.from(listeners)) try { listener(payload) }
\* each invocation is recorded with the rows the listener finds in the
\* table; a onceWrapper calls its listener and then, finally, off on itself
RECURSIVE emitFrom(_, _, _, _, _)
emitFrom(ls, payload, t, i, log) ==
    IF i > Len(ls)
    THEN [heard |-> log, error |-> UNDEF, listeners |-> t.listeners]
    ELSE LET called == Append(log, [listener |-> Wrapped(ls[i]),
                                    payload |-> payload, Data |-> t.Data])
             after == IF ls[i] \in Listeners THEN t
                      ELSE [t EXCEPT !.listeners =
                               offListener(@, payload.type, ls[i])]
             escaped == Caught(Invoke(Wrapped(ls[i])))
         IN  IF escaped # UNDEF
             THEN [heard |-> called, error |-> escaped,
                   listeners |-> after.listeners]
             ELSE emitFrom(ls, payload, after, i + 1, called)

\* the number of registrations of a listener map
Registered(ls) ==
    Len(ls["insert"]) + Len(ls["update"]) + Len(ls["delete"]) + Len(ls["get"])

\* emit(event, payload) on table t
emit(t, payload) == emitFrom(t.listeners[payload.type], payload, t, 1, <<>>)

\* table t once emit has returned or thrown
AfterEmit(t, emitted) == [t EXCEPT !.listeners = emitted.listeners]

\* ------------------------------------------------------------ Mutation Engine
\* An operation's outcome: the table fields after it, the payloads it
\* emitted, what it returned (ok) or that it raised (~ok), and whether its
\* checkAutoSave went on to call Save().
Raised(t) ==
    [t |-> t, ok |-> FALSE, value |-> UNDEF, events |-> <<>>, heard |-> <<>>,
     save |-> FALSE]
Returned(t, value, evs, log) ==
    [t |-> t, ok |-> TRUE, value |-> value, events |-> evs, heard |-> log,
     save |-> checkAutoSave(t, FALSE)]
\* an error that left emit leaves the handler where emit was called
Escaped(t, evs, log, error) ==
    [t |-> t, ok |-> FALSE, value |-> error, events |-> evs, heard |-> log,
     save |-> FALSE]

\* for (const column of Object.keys(this._Schema)) updateIndexForColumn(op, ...)
RECURSIVE IndexAllColumns(_, _, _, _, _)
IndexAllColumns(t, operation, rowIndex, item, i) ==
    IF i > Len(ColumnSeq) THEN t
    ELSE IndexAllColumns(
             updateIndexForColumn(t, operation, ColumnSeq[i], rowIndex,
                                  Prop(item, ColumnSeq[i]), UNDEF),
             operation, rowIndex, item, i + 1)

InsertOp(t, Values) ==
    LET checked == InsertChecker(Values, Schema)
    IN  IF checked.ok
        THEN LET insertIndex == Len(t.Data)
                 pushed == [t EXCEPT !.Data = Append(@, checked.row)]
                 indexed == IndexAllColumns(pushed, "insert", insertIndex, EmptyObj, 1)
                 payload == [type |-> "insert", row |-> checked.row, index |-> insertIndex]
                 emitted == emit(indexed, payload)
                 done == AfterEmit(indexed, emitted)
             IN  IF emitted.error # UNDEF
                 THEN Escaped(done, <<payload>>, emitted.heard, emitted.error)
                 ELSE Returned(done, checked.row, <<payload>>, emitted.heard)
        ELSE Raised(t)

\* The objects of [...this.Data] are told apart by identity: inside one
\* handler an object is named by the (1-based) position it had when the
\* handler started; ids lists the names of the objects now in Data, in order.
StartIds(t) == [i \in 1..Len(t.Data) |-> i]

KeysNotChecked(map) == TRUE

\* every key of Matches (or Values) is a schema column
KeysInSchema(map) == \A key \in DOMAIN map : key \in Cols

SelectItemsUnsliced(t, options) ==
    LET Keep(row) == IF "Matches" \in DOMAIN options
                     THEN MatchesRow(options.Matches, row) ELSE TRUE
    IN  FilterPos(t.Data, Keep, 1)

\* filter by Matches (when given), then slice by Offset/Limit
SelectItems(t, options) ==
    LET Keep(row) == IF "Matches" \in DOMAIN options
                     THEN MatchesRow(options.Matches, row) ELSE TRUE
    IN  SafeSlice(FilterPos(t.Data, Keep, 1), options)

\* the loop of Delete over itemsToDelete
RECURSIVE DeleteLoopFirstPositions(_, _, _, _, _, _)
DeleteLoopFirstPositions(t, ids, items, k, evs, log) ==
    IF k > Len(items) THEN [t |-> t, events |-> evs, heard |-> log, error |-> UNDEF]
    ELSE LET index == IndexOf(ids, items[k])
         IN  IF index # -1
             THEN LET item == At(t.Data, index)
                      unindexed == IndexAllColumns(t, "delete", index, item, 1)
                      spliced == [unindexed EXCEPT !.Data = Splice1(@, index)]
                      payload == [type |-> "delete", row |-> item,
                                  index |-> items[k] - 1]
                      emitted == emit(spliced, payload)
                      next == AfterEmit(spliced, emitted)
                  IN  IF emitted.error # UNDEF
                      THEN [t |-> next, events |-> Append(evs, payload),
                            heard |-> log \o emitted.heard, error |-> emitted.error]
                      ELSE DeleteLoopFirstPositions(next, Splice1(ids, index), items, k + 1,
                               Append(evs, payload), log \o emitted.heard)
             ELSE DeleteLoopFirstPositions(t, ids, items, k + 1, evs, log)

RECURSIVE DeleteLoop(_, _, _, _, _, _)
DeleteLoop(t, ids, items, k, evs, log) ==
    IF k > Len(items) THEN [t |-> t, events |-> evs, heard |-> log, error |-> UNDEF]
    ELSE LET index == IndexOf(ids, items[k])
         IN  IF index # -1
             THEN LET item == At(t.Data, index)
                      unindexed == IndexAllColumns(t, "delete", index, item, 1)
                      spliced == [unindexed EXCEPT !.Data = Splice1(@, index)]
                      payload == [type |-> "delete", row |-> item, index |-> index]
                      emitted == emit(spliced, payload)
                      next == AfterEmit(spliced, emitted)
                  IN  IF emitted.error # UNDEF
                      THEN [t |-> next, events |-> Append(evs, payload),
                            heard |-> log \o emitted.heard, error |-> emitted.error]
                      ELSE DeleteLoop(next, Splice1(ids, index), items, k + 1,
                               Append(evs, payload), log \o emitted.heard)
             ELSE DeleteLoop(t, ids, items, k + 1, evs, log)

DeleteOp(t, options) ==
    IF "Matches" \in DOMAIN options /\ ~KeysInSchema(options.Matches)
    THEN Raised(t)
    ELSE LET itemsToDelete == SelectItems(t, options)
             deletedCount == Len(itemsToDelete)
             done == DeleteLoop(t, StartIds(t), itemsToDelete, 1, <<>>, <<>>)
         IN  IF done.error # UNDEF
             THEN Escaped(done.t, done.events, done.heard, done.error)
             ELSE Returned(done.t, deletedCount, done.events, done.heard)

ObjectAssignReplace(row, Values) == Values

\* Object.assign(row, Values)
ObjectAssign(row, Values) ==
    [k \in (DOMAIN row) \cup (DOMAIN Values) |->
        IF k \in DOMAIN Values THEN Values[k] ELSE row[k]]

\* for (const [key, newValue] of Object.entries(validatedValues)) ...
RECURSIVE IndexChanged(_, _, _, _)
IndexChanged(t, index, Values, keys) ==
    IF keys = {} THEN t
    ELSE LET key == CHOOSE k \in keys : TRUE
             newValue == Values[key]
             oldValue == Prop(At(t.Data, index), key)
             next == IF oldValue # newValue
                     THEN updateIndexForColumn(t, "update", key, index, oldValue, newValue)
                     ELSE t
         IN  IndexChanged(next, index, Values, keys \ {key})

\* the loop of Update over itemsToUpdate
RECURSIVE UpdateLoop(_, _, _, _, _, _, _, _)
UpdateLoop(t, ids, items, Values, k, evs, updatedCount, log) ==
    IF k > Len(items)
    THEN [t |-> t, events |-> evs, count |-> updatedCount, heard |-> log,
          error |-> UNDEF]
    ELSE LET index == IndexOf(ids, items[k])
         IN  IF index # -1
             THEN LET beforeSnapshot == At(t.Data, index)
                      indexed == IndexChanged(t, index, Values, DOMAIN Values)
                      after == ObjectAssign(beforeSnapshot, Values)
                      assigned == [indexed EXCEPT !.Data[index + 1] = after]
                      payload == [type |-> "update", before |-> beforeSnapshot,
                                  after |-> after, index |-> index,
                                  values |-> Values]
                      emitted == emit(assigned, payload)
                      next == AfterEmit(assigned, emitted)
                  IN  IF emitted.error # UNDEF
                      THEN [t |-> next, events |-> Append(evs, payload),
                            count |-> updatedCount,
                            heard |-> log \o emitted.heard, error |-> emitted.error]
                      ELSE UpdateLoop(next, ids, items, Values, k + 1,
                               Append(evs, payload), updatedCount + 1,
                               log \o emitted.heard)
             ELSE UpdateLoop(t, ids, items, Values, k + 1, evs, updatedCount, log)

UpdateOpUnchecked(t, options) ==
    IF "Matches" \in DOMAIN options /\ ~KeysInSchema(options.Matches)
    THEN Raised(t)
    ELSE LET itemsToUpdate == SelectItems(t, options)
             done == UpdateLoop(t, StartIds(t), itemsToUpdate, options.Values,
                                1, <<>>, 0, <<>>)
         IN  IF done.error # UNDEF
             THEN Escaped(done.t, done.events, done.heard, done.error)
             ELSE Returned(done.t, done.count, done.events, done.heard)

UpdateOp(t, options) ==
    IF "Matches" \in DOMAIN options /\ ~KeysInSchema(options.Matches)
    THEN Raised(t)
    ELSE IF ~KeysInSchema(options.Values) THEN Raised(t)
    ELSE IF ~UpdateChecker(options.Values, Schema) THEN Raised(t)
    ELSE LET itemsToUpdate == SelectItems(t, options)
             done == UpdateLoop(t, StartIds(t), itemsToUpdate, options.Values,
                                1, <<>>, 0, <<>>)
         IN  IF done.error # UNDEF
             THEN Escaped(done.t, done.events, done.heard, done.error)
             ELSE Returned(done.t, done.count, done.events, done.heard)

\* --------------------------------------------------------------- Query Engine
\* indices.map((index) => this.Data[index])
RowsAt(data, indices) == [j \in 1..Len(indices) |-> At(data, indices[j])]

\* the filter step of Get
GetFilter(t, options) ==
    LET all == [j \in 1..Len(t.Data) |-> t.Data[j]]
    IN  IF "Matches" \notin DOMAIN options THEN all
        ELSE LET Matches == options.Matches
                 Keep(row) == MatchesRow(Matches, row)
                 scan == [j \in 1..Len(FilterPos(all, Keep, 1)) |->
                             all[FilterPos(all, Keep, 1)[j]]]
             IN  IF Cardinality(DOMAIN Matches) = 1
                 THEN LET key == CHOOSE k \in DOMAIN Matches : TRUE
                      IN  IF key \in DOMAIN t.indexes
                          THEN RowsAt(t.Data, getByIndex(t.indexes, key, Matches[key]))
                          ELSE scan
                 ELSE scan

\* what a throw of Get carries
TypeError == "TypeError"
RelationUndefined == "Extend Error : Relation Undefined"
Thrown(t, error) == [Raised(t) EXCEPT !.value = error]

\* a Data[index] that was out of range is among the rows
HasUndefined(result) == \E j \in 1..Len(result) : result[j] = UndefRow

\* "Select only specified columns": filtered[col] = row[col] per column
SelectColumns(result, Columns) ==
    [j \in 1..Len(result) |->
        [col \in {Columns[i] : i \in 1..Len(Columns)} |-> Prop(result[j], col)]]

\* JSON.stringify of a row drops the keys whose value is undefined and
\* writes null for a number that is not finite
StringifyRow(row) ==
    [k \in {key \in DOMAIN row : row[key] # UNDEF} |->
        IF row[k] = INFINITY THEN NULL ELSE row[k]]
\* JSON.parse(JSON.stringify(Data))
Stringify(data) == [i \in 1..Len(data) |-> StringifyRow(data[i])]

\* JSON.stringify(row) as the key of the seen set; of undefined it is undefined
SeenKey(row) == IF row = UndefRow THEN UndefRow ELSE StringifyRow(row)

\* "Remove duplicates": result.filter with the seen set
RECURSIVE RemoveDuplicates(_, _, _)
RemoveDuplicates(result, i, seen) ==
    IF i > Len(result) THEN <<>>
    ELSE LET key == SeenKey(result[i])
         IN  IF key \in seen THEN RemoveDuplicates(result, i + 1, seen)
             ELSE <<result[i]>> \o RemoveDuplicates(result, i + 1, seen \cup {key})

\* a < b of JavaScript on the values of the model: two strings compare
\* by code units, otherwise both become numbers and NaN compares false
ToNumber(v) ==
    CASE v = "1" -> 1 [] v = "2" -> 2 [] v = NULL -> 0 [] OTHER -> -1
IsNaN(v) == ToNumber(v) = -1
JsLess(a, b) ==
    IF a \in StringVals /\ b \in StringVals
    THEN a = "a@b.com" /\ b = "x"
    ELSE ~IsNaN(a) /\ ~IsNaN(b) /\ ToNumber(a) < ToNumber(b)

ComparatorIgnoresDirection(OrderBy, a, b) ==
    LET col == OrderBy.Column
    IN  IF JsLess(Prop(a, col), Prop(b, col)) THEN -1
        ELSE IF JsLess(Prop(b, col), Prop(a, col)) THEN 1
        ELSE 0

\* the comparator handed to result.sort
Comparator(OrderBy, a, b) ==
    LET col == OrderBy.Column
        asc == Prop(OrderBy, "Direction") = "ASC"
    IN  IF JsLess(Prop(a, col), Prop(b, col)) THEN (IF asc THEN -1 ELSE 1)
        ELSE IF JsLess(Prop(b, col), Prop(a, col)) THEN (IF asc THEN 1 ELSE -1)
        ELSE 0

\* result.sort(comparator): stable, and undefined elements go last without
\* being compared.  The comparator is consistent on every value a column
\* of the model holds (mixed values all compare equal).
RECURSIVE InsertSorted(_, _, _)
InsertSorted(sorted, OrderBy, x) ==
    IF sorted = <<>> THEN <<x>>
    ELSE LET last == sorted[Len(sorted)]
         IN  IF Comparator(OrderBy, last, x) <= 0 THEN Append(sorted, x)
             ELSE Append(InsertSorted(SubSeq(sorted, 1, Len(sorted) - 1), OrderBy, x),
                         last)

RECURSIVE SortFrom(_, _, _, _)
SortFrom(result, OrderBy, i, sorted) ==
    IF i > Len(result) THEN sorted
    ELSE SortFrom(result, OrderBy, i + 1, InsertSorted(sorted, OrderBy, result[i]))

Sort(result, OrderBy) ==
    LET defined == SelectSeq(result, LAMBDA row : row # UndefRow)
        undefineds == SelectSeq(result, LAMBDA row : row = UndefRow)
    IN  SortFrom(defined, OrderBy, 1, <<>>) \o undefineds

\* values attached under "$" + table: null, one row, or a list of rows
JsNull == [kind |-> "null"]
JsObject(row) == [kind |-> "object", val |-> row]
JsArray(rows) == [kind |-> "array", val |-> rows]

DataToAttachFirst(joinedTable, RelationDetail, key) ==
    LET hits == {j \in 1..Len(joinedTable) :
                    Prop(joinedTable[j], RelationDetail.targetColumn) = key}
    IN  IF hits = {} THEN JsNull
        ELSE IF RelationDetail.referenceType = "ONE"
        THEN JsObject(joinedTable[CHOOSE j \in hits : \A h \in hits : j <= h])
        ELSE JsArray(SelectSeq(joinedTable,
                 LAMBDA row : Prop(row, RelationDetail.targetColumn) = key))

\* joinMap.get(key) ?? null, joinMap built from the rows of the joined table
DataToAttach(joinedTable, RelationDetail, key) ==
    LET hits == {j \in 1..Len(joinedTable) :
                    Prop(joinedTable[j], RelationDetail.targetColumn) = key}
    IN  IF hits = {} THEN JsNull
        ELSE IF RelationDetail.referenceType = "ONE"
        THEN JsObject(joinedTable[CHOOSE j \in hits : \A h \in hits : h <= j])
        ELSE JsArray(SelectSeq(joinedTable,
                 LAMBDA row : Prop(row, RelationDetail.targetColumn) = key))

RelationAssumed(table) == TRUE

\* this._extendRelationships.get(table) is truthy
RelationDefined(table) == table \in DOMAIN extendRelationships

\* Extend?.forEach: the rows after the tables from position i on, or the
\* error thrown on the way
RECURSIVE ExtendFrom(_, _, _)
ExtendFrom(result, Extend, i) ==
    IF i > Len(Extend) THEN [error |-> UNDEF, result |-> result]
    ELSE LET table == Extend[i]
         IN  IF ~RelationDefined(table)
             THEN [error |-> RelationUndefined, result |-> result]
             ELSE IF table \notin DOMAIN TablesRef
             THEN ExtendFrom(result, Extend, i + 1)
             ELSE IF HasUndefined(result)
             THEN [error |-> TypeError, result |-> result]
             ELSE LET RelationDetail == extendRelationships[table]
                      joinedTable == TablesRef[table]
                      attached ==
                          [j \in 1..Len(result) |->
                              Assign(result[j], "$" \o table,
                                  DataToAttach(joinedTable, RelationDetail,
                                      Prop(result[j], RelationDetail.myColumn)))]
                  IN  ExtendFrom(attached, Extend, i + 1)

UniqueRowsKeepAll(result) == result

UniqueRows(result) == RemoveDuplicates(result, 1, {})

\* Get sorting this.Data itself instead of the copy [...this.Data]
GetOpSortsInPlace(t, options) ==
    LET filtered == GetFilter(t, options)
        projecting == "Columns" \in DOMAIN options /\ Len(options.Columns) > 0
        projected == IF projecting THEN SelectColumns(filtered, options.Columns)
                     ELSE filtered
        unique == IF "Unique" \in DOMAIN options /\ options.Unique
                  THEN UniqueRows(projected) ELSE projected
        ordered == IF "OrderBy" \in DOMAIN options
                      /\ Prop(options.OrderBy, "Column") # UNDEF
                   THEN Sort(unique, options.OrderBy) ELSE unique
        extended == IF "Extend" \in DOMAIN options
                    THEN ExtendFrom(ordered, options.Extend, 1)
                    ELSE [error |-> UNDEF, result |-> ordered]
        out == SafeSlice(extended.result, options)
        sorted == [t EXCEPT !.Data = IF Len(ordered) = Len(@) /\ ~projecting
                                     THEN ordered ELSE @]
    IN  IF projecting /\ HasUndefined(filtered) THEN Thrown(t, TypeError)
        ELSE IF extended.error # UNDEF THEN Thrown(t, extended.error)
        ELSE LET payload == [type |-> "get", options |-> options, result |-> out]
                 emitted == emit(sorted, payload)
             IN  IF emitted.error # UNDEF
                 THEN Escaped(AfterEmit(sorted, emitted), <<payload>>, emitted.heard,
                              emitted.error)
                 ELSE [t |-> AfterEmit(sorted, emitted), ok |-> TRUE, value |-> out,
                       save |-> FALSE,
                       events |-> <<payload>>, heard |-> emitted.heard]

\* Get: filter, project, deduplicate, sort, extend and slice a copy of the
\* rows, then emit the get event
GetOp(t, options) ==
    LET filtered == GetFilter(t, options)
        projecting == "Columns" \in DOMAIN options /\ Len(options.Columns) > 0
        projected == IF projecting THEN SelectColumns(filtered, options.Columns)
                     ELSE filtered
        unique == IF "Unique" \in DOMAIN options /\ options.Unique
                  THEN UniqueRows(projected) ELSE projected
        ordered == IF "OrderBy" \in DOMAIN options
                      /\ Prop(options.OrderBy, "Column") # UNDEF
                   THEN Sort(unique, options.OrderBy) ELSE unique
        extended == IF "Extend" \in DOMAIN options
                    THEN ExtendFrom(ordered, options.Extend, 1)
                    ELSE [error |-> UNDEF, result |-> ordered]
        out == SafeSlice(extended.result, options)
    IN  IF projecting /\ HasUndefined(filtered) THEN Thrown(t, TypeError)
        ELSE IF extended.error # UNDEF THEN Thrown(t, extended.error)
        ELSE LET payload == [type |-> "get", options |-> options, result |-> out]
                 emitted == emit(t, payload)
             IN  IF emitted.error # UNDEF
                 THEN Escaped(AfterEmit(t, emitted), <<payload>>, emitted.heard,
                              emitted.error)
                 ELSE [t |-> AfterEmit(t, emitted), ok |-> TRUE, value |-> out,
                       save |-> FALSE,
                       events |-> <<payload>>, heard |-> emitted.heard]


\* ------------------------------------------------------------------ inputs
\* value maps for Insert: valid ones, and ones with a missing or null
\* notNull column, a value of the wrong type, a value outside the enum
\* (ID 2 under SchemaEnum) or an unknown key
InsertInputs ==
    {[ID |-> "1"], [ID |-> "2"], [ID |-> "1", Email |-> "a@b.com"],
     [ID |-> "2", Email |-> "a@b.com"],
     [Email |-> "a@b.com"], [ID |-> NULL], [ID |-> "x", Email |-> "a@b.com"],
     [ID |-> "1", Email |-> "x"], [ID |-> "1", Bogus |-> "1"]}

\* table files an earlier run of the same schema can have left
InitFiles(schema) ==
    {<<>>} \cup
    {<<StringifyRow(InsertChecker(V, schema).row)>> :
        V \in {W \in InsertInputs : InsertChecker(W, schema).ok}}

TickMs == timeThresholdMs \div 2

\* ----------------------------------------------------------------- actions
\* no call is being observed
Idle == [op |-> "idle"]
NoRet == [ok |-> TRUE, value |-> UNDEF]

\* constructor, _Schema assignment and LoadSync of an existing table file
Init ==
    /\ \E DBSchema \in DBSchemas :
           /\ Schema = DBSchema[Name]
           /\ extendRelationships = precalculateExtendRelationships(DBSchema)
    /\ Schema \in Schemas
    /\ TablesRef = [Profile |-> ProfileRows]
    /\ disk \in InitFiles(Schema)
    /\ Data = disk
    /\ indexes = buildIndexes(Data)
    /\ dirty = FALSE
    /\ changeCount = 0
    /\ now = 0
    /\ lastSaveTime = now
    /\ pendingSaveTimer = NoTimer
    /\ timers = <<>>
    /\ saves = <<>>
    /\ call = Idle
    /\ ret = NoRet
    /\ events = <<>>
    /\ heard = <<>>
    /\ listeners = NoListeners
    /\ pristine = [i \in 1..Len(Data) |-> FALSE]

\* which rows are still as Insert returned them, after the emitted events
RECURSIVE Track(_, _, _)
Track(p, evs, k) ==
    IF k > Len(evs) THEN p
    ELSE LET e == evs[k]
         IN  CASE e.type = "insert" -> Track(Append(p, TRUE), evs, k + 1)
               [] e.type = "update" -> Track([p EXCEPT ![e.index + 1] = FALSE], evs, k + 1)
               [] e.type = "delete" -> Track(Splice1(p, e.index), evs, k + 1)
               [] OTHER -> Track(p, evs, k + 1)

\* a Save() that has reached its first await; awaited when the call under
\* observation waits for it (await this.checkAutoSave())
SaveCalled(awaited) == [pc |-> "mkdir", buf |-> <<>>, awaited |-> awaited]

\* the call under observation is suspended in await this.Save(); the
\* steps of every Save run while no call is running synchronously
CallAwaits == \E i \in 1..Len(saves) : saves[i].awaited

\* the effect of one call: r is its outcome, c the call.  _changeCount is
\* capped at MaxChanges, and within MaxChanges of the threshold once a
\* burst has brought it there.
Commit(r, c) ==
    /\ Len(r.t.Data) <= MaxRows
    /\ \/ r.t.changeCount <= MaxChanges
       \/ /\ changeCount >= changeThreshold - MaxChanges
          /\ r.t.changeCount <= changeThreshold + MaxChanges
    /\ r.save => Len(saves) < MaxSaves
    /\ Data' = r.t.Data
    /\ indexes' = r.t.indexes
    /\ dirty' = r.t.dirty
    /\ changeCount' = r.t.changeCount
    /\ pendingSaveTimer' = r.t.pendingSaveTimer
    /\ timers' = r.t.timers
    /\ saves' = IF r.save THEN Append(saves, SaveCalled(TRUE)) ELSE saves
    /\ call' = c
    /\ ret' = [ok |-> r.ok, value |-> r.value]
    /\ events' = r.events
    /\ heard' = r.heard
    /\ listeners' = r.t.listeners
    /\ pristine' = Track(pristine, r.events, 1)
    /\ UNCHANGED <<Schema, extendRelationships, TablesRef, lastSaveTime,
                   now, disk>>

Insert(Values) ==
    /\ call = Idle
    /\ Commit(InsertOp(Self, Values), [op |-> "Insert", Values |-> Values])

Update(options) ==
    /\ call = Idle
    /\ Commit(UpdateOp(Self, options), [op |-> "Update", options |-> options])

Delete(options) ==
    /\ call = Idle
    /\ Commit(DeleteOp(Self, options), [op |-> "Delete", options |-> options])

Get(options) ==
    /\ call = Idle
    /\ Commit(GetOp(Self, options), [op |-> "Get", options |-> options])

\* on(event, listener): the Set of the event keeps insertion order and
\* holds a function once
on(event, listener) ==
    /\ call = Idle
    /\ \/ IndexOf(listeners[event], listener) # -1
       \/ Registered(listeners) < MaxListeners
    /\ listeners' = [listeners EXCEPT ![event] =
                         IF IndexOf(@, listener) # -1 THEN @
                         ELSE Append(@, listener)]
    /\ call' = [op |-> "on", event |-> event, listener |-> listener]
    /\ ret' = NoRet
    /\ events' = <<>>
    /\ heard' = <<>>
    /\ UNCHANGED <<Schema, extendRelationships, TablesRef, Data, indexes, dirty,
                   changeCount, lastSaveTime, pendingSaveTimer, timers, now, disk,
                   saves, pristine>>

\* once(event, listener): on(event, onceWrapper) with a wrapper of its
\* own; one wrapper of a listener is registered per event at a time
once(event, listener) ==
    /\ call = Idle
    /\ IndexOf(listeners[event], OnceWrapper(listener)) = -1
    /\ Registered(listeners) < MaxListeners
    /\ listeners' = [listeners EXCEPT ![event] = Append(@, OnceWrapper(listener))]
    /\ call' = [op |-> "once", event |-> event, listener |-> listener]
    /\ ret' = NoRet
    /\ events' = <<>>
    /\ heard' = <<>>
    /\ UNCHANGED <<Schema, extendRelationships, TablesRef, Data, indexes, dirty,
                   changeCount, lastSaveTime, pendingSaveTimer, timers, now, disk,
                   saves, pristine>>

\* off(event, listener), and off(event) when listener is UNDEF
off(event, listener) ==
    /\ call = Idle
    /\ listeners' = offListener(listeners, event, listener)
    /\ call' = [op |-> "off", event |-> event, listener |-> listener]
    /\ ret' = NoRet
    /\ events' = <<>>
    /\ heard' = <<>>
    /\ UNCHANGED <<Schema, extendRelationships, TablesRef, Data, indexes, dirty,
                   changeCount, lastSaveTime, pendingSaveTimer, timers, now, disk,
                   saves, pristine>>

\* the caller has taken the result of its call (await in test/main.ts)
Return ==
    /\ call # Idle
    /\ call.op # "flush"
    /\ ~CallAwaits
    /\ call' = Idle
    /\ ret' = NoRet
    /\ events' = <<>>
    /\ heard' = <<>>
    /\ UNCHANGED <<Schema, listeners, extendRelationships, TablesRef, Data, indexes, dirty, changeCount, lastSaveTime,
                   pendingSaveTimer, timers, now, disk, saves, pristine>>

\* the clock advances
Tick ==
    /\ call = Idle
    /\ now + TickMs <= MaxTicks * TickMs
    /\ now' = now + TickMs
    /\ UNCHANGED <<Schema, listeners, extendRelationships, TablesRef, Data, indexes, dirty, changeCount, lastSaveTime,
                   pendingSaveTimer, timers, disk, saves, call, ret, events, heard, pristine>>

\* if (this._pendingSaveTimer) clearTimeout(this._pendingSaveTimer)
clearTimeout(armed, handle) ==
    IF handle = NoTimer THEN armed ELSE RemovePos(armed, handle)

\* the callback of scheduleTimeBasedSave: checkAutoSave(true) calls Save()
TimerFires ==
    /\ call = Idle
    /\ Len(saves) < MaxSaves
    /\ \E i \in 1..Len(timers) :
           /\ now >= timers[i]
           /\ timers' = Splice1(timers, i - 1)
    /\ pendingSaveTimer' = NoTimer
    /\ saves' = IF checkAutoSave([Self EXCEPT !.pendingSaveTimer = NoTimer], TRUE)
                THEN Append(saves, SaveCalled(FALSE)) ELSE saves
    /\ UNCHANGED <<Schema, listeners, extendRelationships, TablesRef, Data, indexes, dirty, changeCount, lastSaveTime,
                   now, disk, call, ret, events, heard, pristine>>

\* Save resumes after fsp.mkdir: JSON.stringify(this.Data), fsp.writeFile
SaveMkdirDone(i) ==
    /\ call = Idle \/ CallAwaits
    /\ saves[i].pc = "mkdir"
    /\ saves' = [saves EXCEPT ![i] = [@ EXCEPT !.pc = "write", !.buf = Stringify(Data)]]
    /\ UNCHANGED <<Schema, listeners, extendRelationships, TablesRef, Data, indexes, dirty,
                   changeCount, lastSaveTime, pendingSaveTimer, timers, now, disk,
                   call, ret, events, heard, pristine>>

\* Save resumes after fsp.writeFile and runs to its end: its promise is
\* resolved
SaveWriteDone(i) ==
    /\ call = Idle \/ CallAwaits
    /\ saves[i].pc = "write"
    /\ disk' = saves[i].buf
    /\ dirty' = FALSE
    /\ changeCount' = 0
    /\ lastSaveTime' = now
    /\ pendingSaveTimer' = NoTimer
    /\ timers' = clearTimeout(timers, pendingSaveTimer)
    /\ saves' = [saves EXCEPT ![i] = [@ EXCEPT !.pc = "resolved", !.buf = <<>>]]
    /\ UNCHANGED <<Schema, listeners, extendRelationships, TablesRef, Data, indexes, now,
                   call, ret, events, heard, pristine>>

\* fsp.mkdir or fsp.writeFile rejects: Save throws, its promise is rejected
SaveFails(i) ==
    /\ call = Idle \/ CallAwaits
    /\ saves[i].pc \in {"mkdir", "write"}
    /\ saves' = [saves EXCEPT ![i] = [@ EXCEPT !.pc = "rejected", !.buf = <<>>]]
    /\ UNCHANGED <<Schema, listeners, extendRelationships, TablesRef, Data, indexes, dirty,
                   changeCount, lastSaveTime, pendingSaveTimer, timers, now, disk,
                   call, ret, events, heard, pristine>>

SaveFailed == "Failed to save table"

\* the continuation of the settled promise runs: the call that awaited
\* Save returns, or throws what Save threw
SaveSettled(i) ==
    /\ call = Idle \/ CallAwaits
    /\ ~(saves[i].awaited /\ call.op = "Load")
    /\ saves[i].pc \in {"resolved", "rejected"}
    /\ saves' = Splice1(saves, i - 1)
    /\ ret' = IF saves[i].awaited /\ saves[i].pc = "rejected"
              THEN [ok |-> FALSE, value |-> SaveFailed] ELSE ret
    /\ UNCHANGED <<Schema, listeners, extendRelationships, TablesRef, Data, indexes, dirty,
                   changeCount, lastSaveTime, pendingSaveTimer, timers, now, disk,
                   call, events, heard, pristine>>

\* the caller goes on without awaiting the call's promise
Detach ==
    /\ call # Idle
    /\ CallAwaits
    /\ call' = Idle
    /\ ret' = NoRet
    /\ events' = <<>>
    /\ heard' = <<>>
    /\ saves' = [i \in 1..Len(saves) |-> [saves[i] EXCEPT !.awaited = FALSE]]
    /\ UNCHANGED <<Schema, listeners, extendRelationships, TablesRef, Data, indexes, dirty,
                   changeCount, lastSaveTime, pendingSaveTimer, timers, now, disk, pristine>>

\* SaveSync(), as the exit handlers call it: the file is written at once
SaveSync ==
    /\ call = Idle
    /\ disk' = Stringify(Data)
    /\ dirty' = FALSE
    /\ changeCount' = 0
    /\ lastSaveTime' = now
    /\ pendingSaveTimer' = NoTimer
    /\ timers' = clearTimeout(timers, pendingSaveTimer)
    /\ call' = [op |-> "SaveSync"]
    /\ ret' = NoRet
    /\ events' = <<>>
    /\ heard' = <<>>
    /\ UNCHANGED <<Schema, listeners, extendRelationships, TablesRef, Data, indexes, now,
                   saves, pristine>>

\* fs.mkdirSync or fs.writeFileSync throws: SaveSync throws
SaveSyncFails ==
    /\ call = Idle
    /\ call' = [op |-> "SaveSync"]
    /\ ret' = [ok |-> FALSE, value |-> SaveFailed]
    /\ events' = <<>>
    /\ heard' = <<>>
    /\ UNCHANGED <<Schema, listeners, extendRelationships, TablesRef, Data, indexes, dirty,
                   changeCount, lastSaveTime, pendingSaveTimer, timers, now, disk,
                   saves, pristine>>

\* the table file after writeFile opened it for writing (flag 'w') and
\* failed before the last byte: empty or cut short, not a JSON array
Truncated == <<[truncated |-> "true"]>>

\* no table file; a table file that holds JSON other than an array; and
\* a table file whose read fails
Missing == <<[missing |-> "true"]>>
NotArray == <<[object |-> "true"]>>
Unreadable == <<[unreadable |-> "true"]>>

\* JSON.parse of the file gives an array
ParsesToArray(file) == file \notin {Truncated, Missing, NotArray, Unreadable}

\* a catch block that resets the rows without writing the file
ResetsFileWhenMissing(file) == file = Missing

\* fs.existsSync(tableFilePath) is false, or readFileSync or JSON.parse
\* throws: the rows are reset and the file is written anew
ResetsFile(file) == file \in {Missing, Unreadable, Truncated}

\* LoadSync(DBSchema): the rows are those of the file, or none when the
\* file holds no array; when there is no file, or it cannot be read or
\* parsed, the rows are none and SaveSync writes them; the relationships
\* are computed from DBSchema and the indexes rebuilt
LoadSync(DBSchema) ==
    /\ call = Idle \/ (call.op = "SaveSync" /\ ret.ok)
    /\ DBSchema[Name] = Schema
    /\ Data' = IF ParsesToArray(disk) THEN disk ELSE <<>>
    /\ IF ResetsFile(disk)
       THEN /\ disk' = Stringify(Data')
            /\ dirty' = FALSE
            /\ changeCount' = 0
            /\ lastSaveTime' = now
            /\ pendingSaveTimer' = NoTimer
            /\ timers' = clearTimeout(timers, pendingSaveTimer)
       ELSE UNCHANGED <<disk, dirty, changeCount, lastSaveTime, pendingSaveTimer,
                        timers>>
    /\ extendRelationships' = precalculateExtendRelationships(DBSchema)
    /\ indexes' = buildIndexes(Data')
    /\ call' = [op |-> "LoadSync", DBSchema |-> DBSchema, file |-> disk]
    /\ ret' = NoRet
    /\ events' = <<>>
    /\ heard' = <<>>
    /\ pristine' = [i \in 1..Len(Data') |-> FALSE]
    /\ UNCHANGED <<Schema, listeners, TablesRef, now, saves>>

\* LoadSync(DBSchema) when SaveSync throws, and throws again in the catch
\* block: the rows are reset and LoadSync throws before it computes the
\* relationships and rebuilds the indexes
LoadSyncFails(DBSchema) ==
    /\ call = Idle
    /\ DBSchema[Name] = Schema
    /\ ResetsFile(disk)
    /\ Data' = <<>>
    /\ call' = [op |-> "LoadSync", DBSchema |-> DBSchema, file |-> disk]
    /\ ret' = [ok |-> FALSE, value |-> SaveFailed]
    /\ events' = <<>>
    /\ heard' = <<>>
    /\ pristine' = <<>>
    /\ UNCHANGED <<Schema, listeners, extendRelationships, TablesRef, indexes, dirty,
                   changeCount, lastSaveTime, pendingSaveTimer, timers, now, disk,
                   saves>>

\* Load(DBSchema) on a file that is read and parsed: as LoadSync
Load(DBSchema) ==
    /\ call = Idle
    /\ DBSchema[Name] = Schema
    /\ ~ResetsFile(disk)
    /\ Data' = IF ParsesToArray(disk) THEN disk ELSE <<>>
    /\ extendRelationships' = precalculateExtendRelationships(DBSchema)
    /\ indexes' = buildIndexes(Data')
    /\ call' = [op |-> "Load", DBSchema |-> DBSchema, file |-> disk, attempt |-> 0]
    /\ ret' = NoRet
    /\ events' = <<>>
    /\ heard' = <<>>
    /\ pristine' = [i \in 1..Len(Data') |-> FALSE]
    /\ UNCHANGED <<Schema, listeners, TablesRef, dirty, changeCount,
                   lastSaveTime, pendingSaveTimer, timers, now, disk, saves>>

\* Load(DBSchema) when mkdir, readFile or JSON.parse throws: the rows are
\* reset and Load awaits Save()
LoadResets(DBSchema) ==
    /\ call = Idle
    /\ DBSchema[Name] = Schema
    /\ ResetsFile(disk)
    /\ Len(saves) < MaxSaves
    /\ Data' = <<>>
    /\ saves' = Append(saves, SaveCalled(TRUE))
    /\ call' = [op |-> "Load", DBSchema |-> DBSchema, file |-> disk, attempt |-> 1]
    /\ ret' = NoRet
    /\ events' = <<>>
    /\ heard' = <<>>
    /\ pristine' = <<>>
    /\ UNCHANGED <<Schema, listeners, extendRelationships, TablesRef, indexes, dirty,
                   changeCount, lastSaveTime, pendingSaveTimer, timers, now, disk>>

\* Load resumes after the Save it awaits: the relationships are computed
\* and the indexes rebuilt
LoadResumes(i) ==
    /\ call.op = "Load"
    /\ saves[i].awaited
    /\ saves[i].pc = "resolved"
    /\ saves' = Splice1(saves, i - 1)
    /\ extendRelationships' = precalculateExtendRelationships(call.DBSchema)
    /\ indexes' = buildIndexes(Data)
    /\ call' = [call EXCEPT !.attempt = 0]
    /\ UNCHANGED <<Schema, listeners, TablesRef, Data, dirty, changeCount,
                   lastSaveTime, pendingSaveTimer, timers, now, disk, ret, events,
                   heard, pristine>>

\* the Save that Load awaits is rejected: the outer catch block resets
\* the rows and awaits Save() again; rejected there, Load throws
LoadCatches(i) ==
    /\ call.op = "Load"
    /\ saves[i].awaited
    /\ saves[i].pc = "rejected"
    /\ IF call.attempt = 1
       THEN /\ Data' = <<>>
            /\ saves' = Append(Splice1(saves, i - 1), SaveCalled(TRUE))
            /\ call' = [call EXCEPT !.attempt = 2]
            /\ ret' = ret
       ELSE /\ saves' = Splice1(saves, i - 1)
            /\ call' = [call EXCEPT !.attempt = 0]
            /\ ret' = [ok |-> FALSE, value |-> SaveFailed]
            /\ Data' = Data
    /\ UNCHANGED <<Schema, listeners, extendRelationships, TablesRef, indexes, dirty,
                   changeCount, lastSaveTime, pendingSaveTimer, timers, now, disk,
                   events, heard, pristine>>

\* --------------------------------------------------------------- shutdown
\* the events the constructor registers flush for, with process.once
Signals == {"beforeExit", "exit", "SIGINT", "SIGTERM"}

flushUnconditional == TRUE

\* const flush: SaveSync() is called when the table is dirty
flush == dirty

\* the process is running; or the handler of beforeExit, SIGINT or SIGTERM
\* has run and the process is about to emit exit (process.exit(0), or the
\* end of the event loop)
Emitted(signal) ==
    IF signal = "exit"
    THEN call = Idle \/ (call.op = "flush" /\ ~call.exited)
    ELSE /\ call = Idle
         /\ signal = "beforeExit" => (saves = <<>> /\ timers = <<>>)

\* the handler of a shutdown event runs flush; SaveSync, when called,
\* writes the file
Shutdown(signal) ==
    /\ Emitted(signal)
    /\ IF flush
       THEN /\ disk' = Stringify(Data)
            /\ dirty' = FALSE
            /\ changeCount' = 0
            /\ lastSaveTime' = now
            /\ pendingSaveTimer' = NoTimer
            /\ timers' = clearTimeout(timers, pendingSaveTimer)
       ELSE UNCHANGED <<disk, dirty, changeCount, lastSaveTime, pendingSaveTimer,
                         timers>>
    /\ call' = [op |-> "flush", exited |-> signal = "exit"]
    /\ ret' = NoRet
    /\ events' = <<>>
    /\ heard' = <<>>
    /\ UNCHANGED <<Schema, listeners, extendRelationships, TablesRef, Data, indexes, now,
                   saves, pristine>>

\* SaveSync throws inside flush: catch (_) swallows the error
ShutdownWriteFails(signal) ==
    /\ Emitted(signal)
    /\ flush
    /\ call' = [op |-> "flush", exited |-> signal = "exit"]
    /\ ret' = NoRet
    /\ events' = <<>>
    /\ heard' = <<>>
    /\ UNCHANGED <<Schema, listeners, extendRelationships, TablesRef, Data, indexes, dirty,
                   changeCount, lastSaveTime, pendingSaveTimer, timers, now, disk,
                   saves, pristine>>

NoOptions == [o \in {} |-> 0]

\* obj merged with more
With(obj, more) ==
    [k \in (DOMAIN obj) \cup (DOMAIN more) |->
        IF k \in DOMAIN more THEN more[k] ELSE obj[k]]

BogusMatch == [Bogus |-> "1"]

\* Matches / Offset / Limit of Update and Delete
Selections ==
    {NoOptions, [Limit |-> 1], [Offset |-> 1], [Offset |-> 1, Limit |-> 1],
     [Offset |-> -1, Limit |-> 0]}
    \cup {With([Matches |-> [ID |-> "1"]], ol) :
             ol \in {NoOptions, [Limit |-> 1], [Offset |-> 1, Limit |-> 1]}}
    \cup {With([Matches |-> [Email |-> "a@b.com"]], ol) :
             ol \in {NoOptions, [Limit |-> 1]}}

DeleteInputs ==
    Selections
    \cup {With([Matches |-> [ID |-> "1", Email |-> "a@b.com"]], ol) :
             ol \in {NoOptions, [Limit |-> 1]}}
    \cup {[Matches |-> BogusMatch], [Matches |-> BogusMatch, Limit |-> 1]}

\* patches UpdateChecker accepts (ID 2 is outside the enum of SchemaEnum)
PatchInputs == {[Email |-> "a@b.com"], [ID |-> "2"]}

\* patches it rejects, or with an unknown key
BadPatchInputs == {[ID |-> NULL], [Email |-> "x"], [ID |-> "1", Bogus |-> "1"]}

UpdateInputs ==
    {With(sel, [Values |-> V]) : sel \in Selections, V \in PatchInputs}
    \cup {[Values |-> V] : V \in BadPatchInputs}
    \cup {[Matches |-> [ID |-> "1"], Values |-> V, Limit |-> 1] : V \in BadPatchInputs}
    \cup {[Matches |-> BogusMatch, Values |-> [Email |-> "a@b.com"]]}

\* Get with Matches only
MatchInputs ==
    {NoOptions, [Matches |-> [ID |-> "1"]], [Matches |-> [ID |-> "2"]],
     [Matches |-> [Email |-> "a@b.com"]], [Matches |-> [Email |-> NULL]],
     [Matches |-> [ID |-> "1", Email |-> "a@b.com"]], [Matches |-> BogusMatch]}

Asc == [Column |-> "ID", Direction |-> "ASC"]
Desc == [Column |-> "ID", Direction |-> "DESC"]

\* Get with Columns, Unique, OrderBy and Extend; "Nope" is a table without
\* a relationship to this one
ShapeInputs ==
    {[Columns |-> <<"ID">>], [Columns |-> <<"ID">>, Unique |-> TRUE],
     [Unique |-> TRUE],
     [Columns |-> <<"Email">>, Matches |-> [ID |-> "1"]],
     [Columns |-> <<"Email">>, Matches |-> [ID |-> "2"], Unique |-> TRUE],
     [OrderBy |-> Asc], [OrderBy |-> Desc],
     [OrderBy |-> Desc, Columns |-> <<"ID">>, Unique |-> TRUE],
     [OrderBy |-> [Column |-> "Email", Direction |-> "ASC"]],
     [OrderBy |-> Asc, Matches |-> [Email |-> "a@b.com"]],
     [Extend |-> <<"Profile">>],
     [Extend |-> <<"Profile">>, Matches |-> [ID |-> "1"]],
     [Extend |-> <<"Profile">>, Columns |-> <<"ID">>, OrderBy |-> Desc],
     [Extend |-> <<"Profile">>, Columns |-> <<"Email">>],
     [Extend |-> <<"Nope">>], [Extend |-> <<"Profile", "Nope">>],
     [Extend |-> <<"Nope">>, Matches |-> [ID |-> "1"], Columns |-> <<"ID">>]}

\* Offset and Limit: absent, negative, zero and positive
Pages ==
    {[Offset |-> 1], [Limit |-> 1], [Offset |-> 1, Limit |-> 1],
     [Offset |-> -1, Limit |-> 0], [Offset |-> 2, Limit |-> 2]}

PagedInputs ==
    {With(options, page) :
        options \in {NoOptions, [Matches |-> [ID |-> "1"]],
                     [Columns |-> <<"ID">>, Unique |-> TRUE],
                     [OrderBy |-> Desc], [Extend |-> <<"Profile">>]},
        page \in Pages}

GetInputs == MatchInputs \cup ShapeInputs \cup PagedInputs

Next ==
    \/ \E Values \in InsertInputs : Insert(Values)
    \/ \E options \in UpdateInputs : Update(options)
    \/ \E options \in DeleteInputs : Delete(options)
    \/ \E options \in GetInputs : Get(options)
    \/ Return

\* a burst of calls: no timer fires and no flush is forced
Spec == Init /\ [][Next]_vars

\* the table in a burst of calls within one millisecond on an empty table
\* file: Insert({ID:1}), then cycles of Insert and Delete({Offset:1}), each
\* call marking the table dirty once per column, up to the last call
\* before the threshold
InitBurst ==
    /\ Schema = SchemaUsers
    /\ extendRelationships =
           precalculateExtendRelationships(
               [Users |-> SchemaUsers, Profile |-> SchemaProfile("ONE")])
    /\ TablesRef = [Profile |-> ProfileRows]
    /\ disk = <<>>
    /\ now = 0
    /\ lastSaveTime = now
    /\ LET loaded == [Data |-> <<>>, indexes |-> buildIndexes(<<>>), dirty |-> FALSE,
                      changeCount |-> 0, pendingSaveTimer |-> NoTimer,
                      timers |-> <<>>,
                      listeners |-> NoListeners]
           t == InsertOp(loaded, [ID |-> "1"]).t
       IN  /\ Data = t.Data
           /\ indexes = t.indexes
           /\ dirty = t.dirty
           /\ pendingSaveTimer = t.pendingSaveTimer
           /\ timers = t.timers
    /\ changeCount = changeThreshold - Len(ColumnSeq)
    /\ saves = <<>>
    /\ call = Idle
    /\ ret = NoRet
    /\ events = <<>>
    /\ heard = <<>>
    /\ listeners = NoListeners
    /\ pristine = <<TRUE>>

\* a table just loaded, or in the middle of a burst
InitTimed ==
    \/ Init /\ Schema = SchemaUsers
    \/ InitBurst

\* the calls made while the clock runs: accepted and rejected ones, with
\* and without rows to act on
TimedInserts == {[ID |-> "1"], [ID |-> NULL]}
TimedUpdates == {[Values |-> [Email |-> "a@b.com"]]}
TimedDeletes == {[Offset |-> 1]}

\* calls on the table with the clock, the flush timer, the steps of Save
\* and SaveSync
NextTimed ==
    \/ \E Values \in TimedInserts : Insert(Values)
    \/ \E options \in TimedUpdates : Update(options)
    \/ \E options \in TimedDeletes : Delete(options)
    \/ Return
    \/ Detach
    \/ Tick
    \/ TimerFires
    \/ \E i \in 1..Len(saves) : SaveMkdirDone(i)
    \/ \E i \in 1..Len(saves) : SaveWriteDone(i)
    \/ \E i \in 1..Len(saves) : SaveFails(i)
    \/ \E i \in 1..Len(saves) : SaveSettled(i)
    \/ SaveSync
    \/ SaveSyncFails

SpecTimed == InitTimed /\ [][NextTimed]_vars

\* the same, up to the end of the process
NextShutdown ==
    \/ NextTimed
    \/ \E signal \in Signals : Shutdown(signal)
    \/ \E signal \in Signals : ShutdownWriteFails(signal)

SpecShutdown == InitTimed /\ [][NextShutdown]_vars

\* ------------------------------------------------------ flush and reload
\* a new table with a FLOAT column
InitRoundTrip ==
    /\ Schema = SchemaFloat
    /\ extendRelationships =
           precalculateExtendRelationships(
               [Users |-> SchemaFloat, Profile |-> SchemaProfile("ONE")])
    /\ TablesRef = [Profile |-> ProfileRows]
    /\ disk = <<>>
    /\ Data = disk
    /\ indexes = buildIndexes(Data)
    /\ dirty = FALSE
    /\ changeCount = 0
    /\ now = 0
    /\ lastSaveTime = now
    /\ pendingSaveTimer = NoTimer
    /\ timers = <<>>
    /\ saves = <<>>
    /\ call = Idle
    /\ ret = NoRet
    /\ events = <<>>
    /\ heard = <<>>
    /\ listeners = NoListeners
    /\ pristine = <<>>

\* a finite and an infinite number, and a value that is not a number; the
\* optional column is set by Update; Delete removes the last of two rows
RoundTripInserts == {[ID |-> "1"], [ID |-> INFINITY], [ID |-> "x"]}
RoundTripUpdates == {[Values |-> [Email |-> "a@b.com"]]}
RoundTripDeletes == {[Offset |-> 1]}

\* calls on the table, SaveSync and LoadSync within one millisecond
NextRoundTrip ==
    \/ \E Values \in RoundTripInserts : Insert(Values)
    \/ \E options \in RoundTripUpdates : Update(options)
    \/ \E options \in RoundTripDeletes : Delete(options)
    \/ Return
    \/ SaveSync
    \/ SaveSyncFails
    \/ LoadSync([Users |-> SchemaFloat, Profile |-> SchemaProfile("ONE")])

SpecRoundTrip == InitRoundTrip /\ [][NextRoundTrip]_vars

\* ------------------------------------------------- writes that fail midway
\* fsp.writeFile rejects after it opened the file: Save throws
SaveWriteTorn(i) ==
    /\ call = Idle \/ CallAwaits
    /\ saves[i].pc = "write"
    /\ disk' = Truncated
    /\ saves' = [saves EXCEPT ![i] = [@ EXCEPT !.pc = "rejected", !.buf = <<>>]]
    /\ UNCHANGED <<Schema, listeners, extendRelationships, TablesRef, Data, indexes, dirty,
                   changeCount, lastSaveTime, pendingSaveTimer, timers, now,
                   call, ret, events, heard, pristine>>

\* fs.writeFileSync throws after it opened the file: SaveSync throws
SaveSyncTorn ==
    /\ call = Idle
    /\ disk' = Truncated
    /\ call' = [op |-> "SaveSync"]
    /\ ret' = [ok |-> FALSE, value |-> SaveFailed]
    /\ events' = <<>>
    /\ heard' = <<>>
    /\ UNCHANGED <<Schema, listeners, extendRelationships, TablesRef, Data, indexes, dirty,
                   changeCount, lastSaveTime, pendingSaveTimer, timers, now,
                   saves, pristine>>

\* the timed calls, with writes that fail before or after the file is opened
NextTorn ==
    \/ NextTimed
    \/ \E i \in 1..Len(saves) : SaveWriteTorn(i)
    \/ SaveSyncTorn

SpecTorn == InitTimed /\ [][NextTorn]_vars

\* ------------------------------------------------- absent and null values
\* a new table of one of the schemas, with or without defaults
InitValues ==
    /\ Schema \in Schemas \cup {SchemaDefault}
    /\ extendRelationships =
           precalculateExtendRelationships(
               [Users |-> Schema, Profile |-> SchemaProfile("ONE")])
    /\ TablesRef = [Profile |-> ProfileRows]
    /\ disk = <<>>
    /\ Data = disk
    /\ indexes = buildIndexes(Data)
    /\ dirty = FALSE
    /\ changeCount = 0
    /\ now = 0
    /\ lastSaveTime = now
    /\ pendingSaveTimer = NoTimer
    /\ timers = <<>>
    /\ saves = <<>>
    /\ call = Idle
    /\ ret = NoRet
    /\ events = <<>>
    /\ heard = <<>>
    /\ listeners = NoListeners
    /\ pristine = <<>>

\* value maps that leave out a column, or supply null or undefined for it
ValueInserts ==
    {EmptyObj, [ID |-> "1"], [Email |-> "a@b.com"], [ID |-> NULL],
     [ID |-> UNDEF], [ID |-> "1", Email |-> NULL], [ID |-> "1", Email |-> UNDEF],
     [ID |-> "1", Bogus |-> "1"]}

\* patches that supply a value, null or undefined for a column
ValueUpdates ==
    {[Values |-> V] :
        V \in {[ID |-> "2"], [ID |-> NULL], [ID |-> UNDEF], [Email |-> NULL],
               [Email |-> UNDEF], [Email |-> "a@b.com"]}}

NextValues ==
    \/ \E Values \in ValueInserts : Insert(Values)
    \/ \E options \in ValueUpdates : Update(options)
    \/ Return

SpecValues == InitValues /\ [][NextValues]_vars

\* ---------------------------------------------------------- relationships
\* Users{ID: INT notNull, Email: EMAIL reference Users.ID}
SchemaSelf ==
    [ID |-> With(SchemaUsers.ID, [Reference |-> NoReference]),
     Email |-> With(SchemaUsers.Email,
                    [Reference |-> [Table |-> Name, Field |-> "ID", Type |-> "ONE"]])]

\* Profile{UserID, Bio} with and without a reference to Users
ProfileSchemas ==
    {SchemaProfile("ONE"), SchemaProfile("MANY"),
     [UserID |-> [Reference |-> NoReference], Bio |-> [Reference |-> NoReference]]}

\* Orders{Buyer: reference Users.ID, Seller}: Seller refers to Users.Email,
\* to Profile.Bio or to nothing
OrderSchemas ==
    {[Buyer |-> [Reference |-> [Table |-> Name, Field |-> "ID", Type |-> "ONE"]],
      Seller |-> [Reference |-> ref]] :
        ref \in {[Table |-> Name, Field |-> "Email", Type |-> "MANY"],
                 [Table |-> "Profile", Field |-> "Bio", Type |-> "ONE"],
                 NoReference}}

\* Reviews{Author: reference Users.Email, Subject: reference Users.ID}
SchemaReviews ==
    [Author |-> [Reference |-> [Table |-> Name, Field |-> "Email", Type |-> "MANY"]],
     Subject |-> [Reference |-> [Table |-> Name, Field |-> "ID", Type |-> "ONE"]]]

\* schema documents with two to four tables
RelationSchemas ==
    {[Users |-> SchemaSelf, Profile |-> P] : P \in ProfileSchemas}
    \cup {[Users |-> SchemaSelf, Profile |-> P, Orders |-> O] :
              P \in ProfileSchemas, O \in OrderSchemas}
    \cup {[Users |-> SchemaSelf, Profile |-> P, Orders |-> O,
           Reviews |-> SchemaReviews] :
              P \in ProfileSchemas, O \in OrderSchemas}

OrderRows == <<[Buyer |-> "1", Seller |-> "a@b.com"]>>
ReviewRows == <<[Author |-> "a@b.com", Subject |-> "1"]>>

\* the table right after the constructor, the _Schema assignment and
\* LoadSync(DBSchema) of loadTablesSync
InitRelations ==
    /\ disk \in InitFiles(SchemaUsers)
    /\ \E DBSchema \in RelationSchemas :
           /\ Schema = DBSchema[Name]
           /\ extendRelationships = precalculateExtendRelationships(DBSchema)
           /\ call = [op |-> "LoadSync", DBSchema |-> DBSchema, file |-> disk]
    /\ TablesRef = [Profile |-> ProfileRows, Orders |-> OrderRows,
                    Reviews |-> ReviewRows]
    /\ Data = disk
    /\ indexes = buildIndexes(Data)
    /\ dirty = FALSE
    /\ changeCount = 0
    /\ now = 0
    /\ lastSaveTime = now
    /\ pendingSaveTimer = NoTimer
    /\ timers = <<>>
    /\ saves = <<>>
    /\ ret = NoRet
    /\ events = <<>>
    /\ heard = <<>>
    /\ listeners = NoListeners
    /\ pristine = [i \in 1..Len(Data) |-> FALSE]

RelationGets ==
    {[Extend |-> <<table>>] : table \in {"Profile", "Orders", "Reviews", "Users"}}

\* the table is loaded again with another schema document, and joined
NextRelations ==
    \/ \E DBSchema \in RelationSchemas : LoadSync(DBSchema)
    \/ \E options \in RelationGets : Get(options)
    \/ Return

SpecRelations == InitRelations /\ [][NextRelations]_vars

\* ------------------------------------------------------------- listeners
\* the table file: none yet, or two rows of an earlier run
EventFiles ==
    {<<>>,
     <<StringifyRow(InsertChecker([ID |-> "1"], SchemaUsers).row),
       StringifyRow(InsertChecker([ID |-> "2"], SchemaUsers).row)>>}

\* a table of the Users schema, loaded without listeners
InitEvents ==
    /\ Schema = SchemaUsers
    /\ extendRelationships =
           precalculateExtendRelationships(
               [Users |-> SchemaUsers, Profile |-> SchemaProfile("ONE")])
    /\ TablesRef = [Profile |-> ProfileRows]
    /\ disk \in EventFiles
    /\ Data = disk
    /\ indexes = buildIndexes(Data)
    /\ dirty = FALSE
    /\ changeCount = 0
    /\ now = 0
    /\ lastSaveTime = now
    /\ pendingSaveTimer = NoTimer
    /\ timers = <<>>
    /\ saves = <<>>
    /\ call = Idle
    /\ ret = NoRet
    /\ events = <<>>
    /\ heard = <<>>
    /\ listeners = NoListeners
    /\ pristine = [i \in 1..Len(Data) |-> FALSE]

\* accepted and rejected calls; Update and Delete of every row, of one row
\* and of no row
EventInserts == {[ID |-> "1"], [ID |-> "2"], [ID |-> "x"]}
EventUpdates ==
    {[Values |-> [Email |-> "a@b.com"]],
     [Values |-> [Email |-> "a@b.com"], Limit |-> 1],
     [Values |-> [Email |-> "x"]]}
EventDeletes == {NoOptions, [Limit |-> 1], [Matches |-> BogusMatch]}
EventGets == {NoOptions, [Matches |-> [ID |-> "1"]], [Matches |-> BogusMatch]}

\* calls on a table whose listeners are registered and unregistered
\* between the calls
NextEvents ==
    \/ \E Values \in EventInserts : Insert(Values)
    \/ \E options \in EventUpdates : Update(options)
    \/ \E options \in EventDeletes : Delete(options)
    \/ \E options \in EventGets : Get(options)
    \/ Return
    \/ \E event \in EventTypes, listener \in Listeners : on(event, listener)
    \/ \E event \in EventTypes, listener \in Listeners \cup {UNDEF} :
           off(event, listener)

SpecEvents == InitEvents /\ [][NextEvents]_vars

\* calls that emit no, one and two events, with listeners registered by
\* on and once and unregistered by off between the calls
ListenerInserts == {[ID |-> "1"], [ID |-> "x"]}
ListenerDeletes == {NoOptions}
ListenerGets == {NoOptions}

NextListeners ==
    \/ \E Values \in ListenerInserts : Insert(Values)
    \/ \E options \in ListenerDeletes : Delete(options)
    \/ \E options \in ListenerGets : Get(options)
    \/ Return
    \/ \E event \in EventTypes, listener \in Listeners : on(event, listener)
    \/ \E event \in EventTypes, listener \in Listeners : once(event, listener)
    \/ \E event \in EventTypes, listener \in Listeners \cup {UNDEF} :
           off(event, listener)

SpecListeners == InitEvents /\ [][NextListeners]_vars

\* ------------------------------------------------------------------- load
\* new Map() and {}: no relationship and no index before the first load
NoRelationships == [table \in {} |-> NoReference]
NoIndexes == [column \in {} |-> EmptyIndex]

\* the table file found at load: none, unreadable, cut short, JSON that
\* is no array, an empty array, an array of one row
LoadFiles == {Missing, Unreadable, Truncated, NotArray, <<>>, <<[ID |-> "1"]>>}

\* new OptimaTable(name, path) with _Schema assigned: the table before
\* its first load
InitLoad ==
    /\ Schema = SchemaUsers
    /\ extendRelationships = NoRelationships
    /\ TablesRef = [Profile |-> ProfileRows]
    /\ disk \in LoadFiles
    /\ Data = <<>>
    /\ indexes = NoIndexes
    /\ dirty = FALSE
    /\ changeCount = 0
    /\ now = 0
    /\ lastSaveTime = now
    /\ pendingSaveTimer = NoTimer
    /\ timers = <<>>
    /\ saves = <<>>
    /\ call = Idle
    /\ ret = NoRet
    /\ events = <<>>
    /\ heard = <<>>
    /\ listeners = NoListeners
    /\ pristine = <<>>

LoadSchema == [Users |-> SchemaUsers, Profile |-> SchemaProfile("ONE")]
LoadInserts == {[ID |-> "1"], [ID |-> "2"]}

\* loads of the table, first and repeated, with calls and flushes between
\* them, within one millisecond
NextLoad ==
    \/ LoadSync(LoadSchema)
    \/ LoadSyncFails(LoadSchema)
    \/ Load(LoadSchema)
    \/ LoadResets(LoadSchema)
    \/ \E i \in 1..Len(saves) : LoadResumes(i)
    \/ \E i \in 1..Len(saves) : LoadCatches(i)
    \/ \E i \in 1..Len(saves) : SaveMkdirDone(i)
    \/ \E i \in 1..Len(saves) : SaveWriteDone(i)
    \/ \E i \in 1..Len(saves) : SaveFails(i)
    \/ \E Values \in LoadInserts : Insert(Values)
    \/ Return
    \/ SaveSync

SpecLoad == InitLoad /\ [][NextLoad]_vars

\* -------------------------------------------------- disk writes that succeed
\* the flush timer, when one is pending, is due within the hours of the clock
TimerWithinClock ==
    pendingSaveTimer # NoTimer => pendingSaveTimer <= MaxTicks * TickMs

\* the calls, the clock, the timer and the steps of Save when no mkdir and
\* no writeFile fails; a call is made only when the timer it schedules can
\* still fire
NextLive ==
    \/ (\E Values \in TimedInserts : Insert(Values)) /\ TimerWithinClock'
    \/ (\E options \in TimedUpdates : Update(options)) /\ TimerWithinClock'
    \/ (\E options \in TimedDeletes : Delete(options)) /\ TimerWithinClock'
    \/ Return
    \/ Detach
    \/ Tick
    \/ TimerFires
    \/ \E i \in 1..Len(saves) : SaveMkdirDone(i)
    \/ \E i \in 1..Len(saves) : SaveWriteDone(i)
    \/ \E i \in 1..Len(saves) : SaveSettled(i)

\* time passes, a timer that is due fires, a promise that can settle
\* settles, and a caller takes the result of its call
SpecLive ==
    /\ InitTimed
    /\ [][NextLive]_vars
    /\ WF_now(Tick)
    /\ WF_pendingSaveTimer(TimerFires)
    /\ WF_call(Return)
    /\ WF_saves(\E i \in 1..Len(saves) : SaveMkdirDone(i))
    /\ WF_saves(\E i \in 1..Len(saves) : SaveWriteDone(i))
    /\ WF_saves(\E i \in 1..Len(saves) : SaveSettled(i))


\* ======================================================================
\* The claims.  A step of Insert, Update, Delete or Get is a step from
\* call = Idle to call' naming the operation; ret' and events' then hold
\* what it returned and emitted.
\* ======================================================================
Range(seq) == {seq[i] : i \in 1..Len(seq)}
Count(seq, x) == Cardinality({i \in 1..Len(seq) : seq[i] = x})
SameRows(a, b) ==
    /\ Len(a) = Len(b)
    /\ \A x \in Range(a) \cup Range(b) : Count(a, x) = Count(b, x)

\* the rows of data that satisfy every predicate of Matches, in order
LinearScan(data, Matches) ==
    SelectSeq(data, LAMBDA row : \A k \in DOMAIN Matches : Prop(row, k) = Matches[k])

\* the 1-based positions of data selected by Matches, Offset and Limit:
\* the matching position of rank r (0-based, in storage order) is selected
\* when offset <= r and, for a positive Limit, r < offset + Limit
SelectedPositions(data, options) ==
    LET Hit(i) == "Matches" \in DOMAIN options =>
                      \A k \in DOMAIN options.Matches :
                          Prop(data[i], k) = options.Matches[k]
        Rank(i) == Cardinality({j \in 1..(i - 1) : Hit(j)})
        offset == IF "Offset" \in DOMAIN options /\ options.Offset > 0
                  THEN options.Offset ELSE 0
        bounded == "Limit" \in DOMAIN options /\ options.Limit > 0
    IN  {i \in 1..Len(data) :
            /\ Hit(i)
            /\ Rank(i) >= offset
            /\ bounded => Rank(i) < offset + options.Limit}

IsCall(op) == call = Idle /\ call'.op = op
TableUnchanged ==
    UNCHANGED <<Data, indexes, dirty, changeCount, lastSaveTime,
                pendingSaveTimer, disk, saves>>

\* C1: for every schema column c and every value v, the bucket
\* getByIndex(c, v) lists exactly the current positions i with
\* Data[i][c] = v, each once.
C1_IndexRowConsistency ==
    \A c \in Cols : \A v \in Vals \ {UNDEF} :
        LET bucket == getByIndex(indexes, c, v)
        IN  /\ \A j, k \in 1..Len(bucket) : j # k => bucket[j] # bucket[k]
            /\ Range(bucket) = {i \in 0..(Len(Data) - 1) : Prop(Data[i + 1], c) = v}

\* C2: a Get with exactly one predicate on a schema column returns exactly
\* the rows the linear scan of the row sequence returns, each once.
C2_IndexedGetEqualsScan ==
    (/\ call.op = "Get"
     /\ "Matches" \in DOMAIN call.options
     /\ Cardinality(DOMAIN call.options.Matches) = 1
     /\ DOMAIN call.options.Matches \subseteq Cols)
    => SameRows(ret.value, LinearScan(Data, call.options.Matches))

\* C3: the row Insert returns is in the unfiltered Get with the inserted
\* values, and while it is neither updated nor deleted it is in every
\* single-predicate Get on one of its values.
C3_InsertedRowIsFound ==
    /\ (call.op = "Insert" /\ ret.ok) =>
           /\ ret.value \in Range(GetOp(Self, NoOptions).value)
           /\ \A k \in DOMAIN call.Values : Prop(ret.value, k) = call.Values[k]
    /\ \A i \in 1..Len(Data) : pristine[i] =>
           \A c \in Cols : Prop(Data[i], c) # UNDEF =>
               Data[i] \in Range(GetOp(Self, [Matches |-> (c :> Prop(Data[i], c))]).value)

\* the value the Row Validator checks for column c (spec 4.1)
Candidate(Values, c) ==
    IF c \in DOMAIN Values THEN Values[c]
    ELSE IF Schema[c].Default # UNDEF THEN Schema[c].Default
    ELSE IF Schema[c].NotNull = "false" THEN NULL
    ELSE UNDEF

WrongValue(c, v) ==
    \/ Schema[c].Type = "INT" /\ v \notin IntVals
    \/ Schema[c].Type = "EMAIL" /\ v \notin EmailVals
    \/ Schema[c].HasEnum /\ v \notin Schema[c].Enum

\* unknown key, missing notNull column, type mismatch or enum violation
InsertRejected(Values) ==
    \/ \E k \in DOMAIN Values : k \notin Cols
    \/ \E c \in Cols :
          LET v == Candidate(Values, c)
          IN  IF v \in {UNDEF, NULL} THEN Schema[c].NotNull = "true"
              ELSE WrongValue(c, v)

\* C4: an Insert whose values the Row Validator rejects raises an error,
\* changes no row, bucket, flag, counter, timer or file and emits nothing.
C4_RejectedInsertChangesNothing ==
    [][(IsCall("Insert") /\ InsertRejected(call'.Values))
          => (~ret'.ok /\ TableUnchanged /\ events' = <<>>)]_vars

C4_Witness ==
    /\ call.op = "Insert"
    /\ ~ret.ok
    /\ Len(Data) >= 2
    /\ dirty
    /\ pendingSaveTimer # NoTimer

\* unknown key in Matches or Values, null for a notNull column, type
\* mismatch or enum violation in the patch
UpdateRejected(options) ==
    \/ "Matches" \in DOMAIN options /\ \E k \in DOMAIN options.Matches : k \notin Cols
    \/ \E k \in DOMAIN options.Values :
          \/ k \notin Cols
          \/ k \in Cols /\ options.Values[k] = NULL /\ Schema[k].NotNull = "true"
          \/ k \in Cols /\ options.Values[k] \notin {NULL, UNDEF}
                /\ WrongValue(k, options.Values[k])

\* C5: a rejected Update raises an error before any row is touched.
C5_RejectedUpdateChangesNothing ==
    [][(IsCall("Update") /\ UpdateRejected(call'.options))
          => (~ret'.ok /\ TableUnchanged /\ events' = <<>>)]_vars

\* a rejected Update whose predicate matches several rows
C5_Witness ==
    /\ call.op = "Update"
    /\ ~ret.ok
    /\ call.options.Values = [ID |-> NULL]
    /\ Cardinality(SelectedPositions(Data, NoOptions)) >= 2

\* C6: a Delete with a Matches key outside the schema raises an error,
\* removes no row, changes no bucket, flag or counter and emits nothing.
C6_DeleteUnknownKeyChangesNothing ==
    [][(/\ IsCall("Delete")
        /\ "Matches" \in DOMAIN call'.options
        /\ \E k \in DOMAIN call'.options.Matches : k \notin Cols)
          => (~ret'.ok /\ TableUnchanged /\ events' = <<>>)]_vars

C6_Witness ==
    /\ call.op = "Delete"
    /\ ~ret.ok
    /\ BogusKey \in DOMAIN call.options.Matches
    /\ Len(Data) >= 2

\* C7: a Get whose Matches names a column outside the schema fails with
\* an error and returns no result set.
C7_GetUnknownColumnFails ==
    (/\ call.op = "Get"
     /\ "Matches" \in DOMAIN call.options
     /\ \E k \in DOMAIN call.options.Matches : k \notin Cols)
    => ~ret.ok


\* C8: a successful Update patches exactly the rows selected by Matches,
\* Offset and Limit and returns their number; columns not named in
\* Values, the other rows, the row count and the row order are unchanged.
C8_UpdatePatchesSelection ==
    [][(IsCall("Update") /\ ret'.ok) =>
          LET options == call'.options
              selected == SelectedPositions(Data, options)
          IN  /\ ret'.value = Cardinality(selected)
              /\ Len(Data') = Len(Data)
              /\ \A i \in 1..Len(Data) :
                    IF i \in selected
                    THEN \A k \in Cols :
                            Prop(Data'[i], k) =
                                IF k \in DOMAIN options.Values
                                THEN options.Values[k] ELSE Prop(Data[i], k)
                    ELSE Data'[i] = Data[i]]_vars

\* an Update with an Offset that skipped a matching row and patched a
\* later one, leaving its other column as it was
C8_Witness ==
    /\ call.op = "Update"
    /\ ret.ok
    /\ "Offset" \in DOMAIN call.options
    /\ ret.value >= 1
    /\ Len(Data) = MaxRows
    /\ events[1].index >= 1
    /\ \E k \in Cols \ DOMAIN call.options.Values :
           Prop(events[1].after, k) # UNDEF

\* what every successful Delete does: it removes exactly the selected
\* rows, returns their number and keeps the others in order
DeleteRemovesSelection ==
    LET selected == SelectedPositions(Data, call'.options)
        kept == SelectSeq([i \in 1..Len(Data) |-> i], LAMBDA i : i \notin selected)
    IN  /\ ret'.value = Cardinality(selected)
        /\ ret'.value = Len(Data) - Len(Data')
        /\ Data' = [j \in 1..Len(kept) |-> Data[kept[j]]]

\* C9 as stated: ... and with no Matches and no Limit it empties the table.
C9_DeleteNoMatchesNoLimitEmpties ==
    [][(IsCall("Delete") /\ ret'.ok) =>
          /\ DeleteRemovesSelection
          /\ ("Matches" \notin DOMAIN call'.options /\ "Limit" \notin DOMAIN call'.options)
                => Data' = <<>>]_vars

\* C9 amended: a successful Delete removes exactly the rows selected by
\* Matches, Offset and Limit, returns their number and keeps the others in
\* order; with no Matches, no Limit and no positive Offset it empties the
\* table.
C9_DeleteRemovesSelection ==
    [][(IsCall("Delete") /\ ret'.ok) =>
          /\ DeleteRemovesSelection
          /\ (/\ "Matches" \notin DOMAIN call'.options
              /\ "Limit" \notin DOMAIN call'.options
              /\ ("Offset" \in DOMAIN call'.options => call'.options.Offset <= 0))
                => Data' = <<>>]_vars

\* a Delete with an Offset that removed a row and left another
C9_Witness ==
    /\ call.op = "Delete"
    /\ ret.ok
    /\ "Offset" \in DOMAIN call.options
    /\ call.options.Offset > 0
    /\ ret.value >= 1
    /\ Len(Data) >= 1

\* C10: an accepted Insert always adds a row, also when an equal row is
\* stored; a Delete with Limit 1 whose Matches equals the values of
\* stored rows removes exactly one of them, and each of the others is
\* still returned by an unfiltered Get and by a Get with that Matches.
C10_TwinsIndependentlyDeletable ==
    [][/\ (IsCall("Insert") /\ ret'.ok) => Len(Data') = Len(Data) + 1
       /\ (/\ IsCall("Delete")
           /\ ret'.ok
           /\ DOMAIN call'.options = {"Matches", "Limit"}
           /\ call'.options.Limit = 1)
          => LET M == call'.options.Matches
                 twins == {i \in 1..Len(Data) : Data[i] = M}
                 after == [Data |-> Data', indexes |-> indexes', dirty |-> dirty',
                           changeCount |-> changeCount',
                           pendingSaveTimer |-> pendingSaveTimer',
                           timers |-> timers',
                           listeners |-> listeners']
             IN  twins # {} =>
                    /\ ret'.value = 1
                    /\ Count(Data', M) = Cardinality(twins) - 1
                    /\ Cardinality(twins) >= 2 =>
                          /\ M \in Range(GetOp(after, NoOptions).value)
                          /\ M \in Range(GetOp(after, [Matches |-> M]).value)]_vars


\* ----------------------------------------------------------------------
\* Claims about the stages of Get.  call'.options are the options of the
\* Get being taken, ret' what it returned or threw.
\* ----------------------------------------------------------------------
Min(a, b) == IF a <= b THEN a ELSE b
Has(options, key) == key \in DOMAIN options
Without(options, keys) == [k \in (DOMAIN options) \ keys |-> options[k]]
Projecting(options) == Has(options, "Columns") /\ Len(options.Columns) > 0

\* full sliced [max(o,0), max(o,0)+l) clamped to its length; a
\* non-positive or absent Limit runs to the end
PageOf(full, options) ==
    LET o == IF Has(options, "Offset") THEN Max(options.Offset, 0) ELSE 0
        l == IF Has(options, "Limit") /\ options.Limit > 0
             THEN options.Limit ELSE Len(full)
        lo == Min(o, Len(full))
        hi == Min(o + l, Len(full))
    IN  [j \in 1..(hi - lo) |-> full[lo + j]]

\* C11: every Get returns the result of the same Get without Offset and
\* Limit, sliced [max(o,0), max(o,0)+l) and clamped to its length, where a
\* negative or absent Offset is 0 and a non-positive or absent Limit takes
\* every row from the offset on (and it throws exactly when that Get does).
C11_GetPagination ==
    [][IsCall("Get") =>
          LET full == GetOp(Self, Without(call'.options, {"Offset", "Limit"}))
          IN  /\ ret'.ok = full.ok
              /\ ret'.ok => ret'.value = PageOf(full.value, call'.options)]_vars

\* a Get of the second of two rows by Offset 1, Limit 1 has returned
C11_Witness ==
    /\ call.op = "Get"
    /\ call.options = [Offset |-> 1, Limit |-> 1]
    /\ Len(Data) = 2
    /\ ret.ok
    /\ ret.value = <<Data[2]>>

\* the projection of a stored row on a list of columns
Projection(row, Columns) ==
    [col \in {Columns[i] : i \in 1..Len(Columns)} |-> Prop(row, col)]

\* C12: a Get with Matches and Columns (and no other option) returns the
\* projections of exactly the stored rows that satisfy Matches on their
\* stored values, in storage order, also when Matches names a column that
\* is not in Columns.
C12_FilterBeforeProjection ==
    [][(/\ IsCall("Get")
        /\ DOMAIN call'.options = {"Matches", "Columns"}
        /\ Projecting(call'.options))
       => LET hits == LinearScan(Data, call'.options.Matches)
          IN  /\ ret'.ok
              /\ ret'.value = [j \in 1..Len(hits) |->
                                  Projection(hits[j], call'.options.Columns)]]_vars

\* the serialized form of a result row: its keys with a defined value
Serialized(row) ==
    IF row = UndefRow THEN row
    ELSE [k \in {key \in DOMAIN row : row[key] # UNDEF} |-> row[k]]

\* the rows of a list whose serialized form no earlier row of it has
FirstOccurrences(rows) ==
    LET Kept == {j \in 1..Len(rows) :
                    \A i \in 1..(j - 1) : Serialized(rows[i]) # Serialized(rows[j])}
        Nth(n) == CHOOSE j \in Kept : Cardinality({i \in Kept : i < j}) = n - 1
    IN  [n \in 1..Cardinality(Kept) |-> rows[Nth(n)]]

\* C13: a Get with Unique (Extend aside) returns no two rows with the same
\* serialized form; without OrderBy it returns the first occurrences, in
\* order, of the rows the same Get returns without Unique, compared in the
\* shape they have after projection; and over the whole table, every
\* projected shape of a stored row appears exactly once, so stored rows that
\* differ only in columns that are not projected give a single result row.
C13_UniqueAfterProjection ==
    [][(/\ IsCall("Get")
        /\ Has(call'.options, "Unique") /\ call'.options.Unique
        /\ ~Has(call'.options, "Extend")
        /\ ret'.ok)
       => LET options == call'.options
              paging == {"Offset", "Limit"}
              before == GetOp(Self, Without(options, {"Unique"} \cup paging))
              all == GetOp(Self, Without(options, paging)).value
          IN  /\ \A i, j \in 1..Len(ret'.value) :
                     i # j => Serialized(ret'.value[i]) # Serialized(ret'.value[j])
              /\ ~Has(options, "OrderBy") =>
                     ret'.value = PageOf(FirstOccurrences(before.value), options)
              /\ (Projecting(options) /\ ~Has(options, "Matches")) =>
                     \A d \in 1..Len(Data) :
                         Cardinality({j \in 1..Len(all) :
                             Serialized(all[j]) =
                                 Serialized(Projection(Data[d], options.Columns))}) = 1]_vars

\* two stored rows with the same ID and different Email gave one row
C13_Witness ==
    /\ call.op = "Get"
    /\ call.options = [Columns |-> <<"ID">>, Unique |-> TRUE]
    /\ Len(Data) = 2
    /\ Data[1].ID = Data[2].ID
    /\ Prop(Data[1], "Email") # Prop(Data[2], "Email")
    /\ ret.ok
    /\ ret.value = <<[ID |-> Data[1].ID]>>

\* the order of two values of the same kind: integers by size, strings
\* by code units
Before(a, b) ==
    \/ a = "1" /\ b = "2"
    \/ a = "a@b.com" /\ b = "x"

\* every row is defined and the values of col are all integers or all strings
MutuallyComparable(rows, col) ==
    /\ \A j \in 1..Len(rows) : rows[j] # UndefRow
    /\ \/ \A j \in 1..Len(rows) : Prop(rows[j], col) \in IntVals
       \/ \A j \in 1..Len(rows) : Prop(rows[j], col) \in StringVals

\* C14: for a Get with OrderBy over rows whose values in Column are
\* mutually comparable, the result before pagination is sorted by Column
\* (no later row before an earlier one for ASC, the reverse for DESC), and
\* for every value the rows with that value are the same rows in the same
\* order as before sorting (stable); the call returns the page of it.
C14_OrderByStableSort ==
    [][(/\ IsCall("Get")
        /\ Has(call'.options, "OrderBy")
        /\ ret'.ok)
       => LET options == call'.options
              col == options.OrderBy.Column
              paging == {"Offset", "Limit"}
              unsorted == GetOp(Self, Without(options, paging \cup {"OrderBy"})).value
              sorted == GetOp(Self, Without(options, paging)).value
          IN  MutuallyComparable(unsorted, col) =>
                /\ \A i, j \in 1..Len(sorted) :
                       i < j => IF options.OrderBy.Direction = "ASC"
                                THEN ~Before(Prop(sorted[j], col), Prop(sorted[i], col))
                                ELSE ~Before(Prop(sorted[i], col), Prop(sorted[j], col))
                /\ \A v \in Vals :
                       SelectSeq(sorted, LAMBDA row : Prop(row, col) = v)
                           = SelectSeq(unsorted, LAMBDA row : Prop(row, col) = v)
                /\ ret'.value = PageOf(sorted, options)]_vars

\* a descending Get has returned two stored rows in the reverse of their
\* storage order
C14_Witness ==
    /\ call.op = "Get"
    /\ call.options = [OrderBy |-> Desc]
    /\ Len(Data) = 2
    /\ Before(Data[1].ID, Data[2].ID)
    /\ ret.ok
    /\ ret.value = <<Data[2], Data[1]>>

\* the keys Extend adds for a list of tables
ExtendKeys(Extend) == {"$" \o Extend[i] : i \in 1..Len(Extend)}

\* C15: a Get with Extend over related tables has the outcome of the same
\* Get without Extend: it returns when that one returns, with as many
\* rows, and each row is the row at the same place of that result with
\* only the "$<table>" keys added.
C15_ExtendIsAdditive ==
    [][(/\ IsCall("Get")
        /\ Has(call'.options, "Extend")
        /\ \A i \in 1..Len(call'.options.Extend) :
               call'.options.Extend[i] \in DOMAIN extendRelationships)
       => LET options == call'.options
              plain == GetOp(Self, Without(options, {"Extend"}))
              added == ExtendKeys(options.Extend)
          IN  /\ ret'.ok = plain.ok
              /\ ret'.ok =>
                    /\ Len(ret'.value) = Len(plain.value)
                    /\ \A j \in 1..Len(plain.value) :
                          /\ DOMAIN ret'.value[j] = (DOMAIN plain.value[j]) \cup added
                          /\ Without(ret'.value[j], added) = plain.value[j]]_vars

C17_ExtendAttachesByStoredJoinColumn ==
    [][(/\ IsCall("Get")
        /\ DOMAIN call'.options \subseteq {"Extend", "Columns"}
        /\ Has(call'.options, "Extend")
        /\ call'.options.Extend = <<"Profile">>)
       => /\ ret'.ok
          /\ Len(ret'.value) = Len(Data)
          /\ \A j \in 1..Len(Data) :
                LET rel == extendRelationships["Profile"]
                    key == Prop(Data[j], rel.myColumn)
                    matching == SelectSeq(TablesRef["Profile"],
                                    LAMBDA row : Prop(row, rel.targetColumn) = key)
                    payload == ret'.value[j]["$Profile"]
                IN  IF Len(matching) = 0 THEN payload = JsNull
                    ELSE IF rel.referenceType = "ONE"
                    THEN /\ payload.kind = "object"
                         /\ \E m \in 1..Len(matching) : payload.val = matching[m]
                    ELSE payload = JsArray(matching)]_vars


\* ----------------------------------------------------------------------
\* Claims about the persistence policy, under SpecTimed.
\* ----------------------------------------------------------------------
Mutations == {"Insert", "Update", "Delete"}

\* the table is dirty and the change count or the time since the last
\* flush has reached its threshold
ThresholdReached ==
    /\ dirty
    /\ \/ changeCount >= changeThreshold
       \/ now - lastSaveTime >= timeThresholdMs

\* C18: an Insert, Update or Delete that succeeds calls Save exactly when
\* it finds the table dirty with the change count at changeThreshold or
\* timeThresholdMs elapsed since the last flush (clean, or dirty below both
\* thresholds, it writes nothing), and when it has returned, the table is
\* not dirty with a threshold reached.
C18_FlushForcedAtThreshold ==
    [][/\ (\E op \in Mutations : IsCall(op)) /\ ret'.ok
            => (saves' # saves <=> ThresholdReached')
       /\ (call'.op \in Mutations /\ ret'.ok /\ ~CallAwaits')
            => ~ThresholdReached']_vars

\* an Insert has returned, before timeThresholdMs has passed, after the
\* flush that the change count forced: the file holds both rows
C18_Witness ==
    /\ call.op = "Insert"
    /\ ret.ok
    /\ ~CallAwaits
    /\ now < timeThresholdMs
    /\ ~dirty
    /\ changeCount = 0
    /\ Len(Data) = 2
    /\ disk = Stringify(Data)

\* a Save in progress becomes resolved, or rejected, in this step
SaveResolves ==
    /\ Len(saves') = Len(saves)
    /\ \E i \in 1..Len(saves) : saves[i].pc = "write" /\ saves'[i].pc = "resolved"
SaveRejects ==
    /\ Len(saves') = Len(saves)
    /\ \E i \in 1..Len(saves) :
           saves[i].pc \in {"mkdir", "write"} /\ saves'[i].pc = "rejected"

\* C19: a flush that succeeds (Save at its end, or SaveSync) leaves dirty
\* false, changeCount 0, lastSaveTime at the time of the flush, no pending
\* timer, and the file holding the serialized rows of the table; one that
\* fails leaves dirty, changeCount, lastSaveTime and the timer as they were.
C19_FlushPostconditions ==
    [][/\ (SaveResolves \/ (IsCall("SaveSync") /\ ret'.ok))
            => /\ ~dirty'
               /\ changeCount' = 0
               /\ lastSaveTime' = now'
               /\ pendingSaveTimer' = NoTimer
               /\ disk' = Stringify(Data')
       /\ (SaveRejects \/ (IsCall("SaveSync") /\ ~ret'.ok))
            => UNCHANGED <<dirty, changeCount, lastSaveTime, pendingSaveTimer>>]_vars

\* C20: in every reachable state, when dirty is false and no Save is in
\* progress, the file holds the rows of the table.
C20_CleanMeansFlushed ==
    (~dirty /\ saves = <<>>) => disk = Stringify(Data)


\* ----------------------------------------------------------------------
\* Claims about the flush delay, under SpecLive.
\* ----------------------------------------------------------------------
\* the file does not hold the rows of the table
Unflushed == disk # Stringify(Data)

\* a Save has been called and has not yet written the file
FlushInProgress ==
    \E i \in 1..Len(saves) : saves[i].pc \in {"mkdir", "write"}

\* a flush timer is pending, due timeThresholdMs after the last flush at
\* the latest (or at once, when that time is already past)
TimerDue ==
    /\ pendingSaveTimer # NoTimer
    /\ pendingSaveTimer <= Max(now, lastSaveTime + timeThresholdMs)

\* C21: when no disk write fails, whenever the file differs from the rows
\* of the table, a flush timer is pending (due timeThresholdMs after the
\* last flush at the latest) or a Save is in progress.  In a state where
\* neither holds, no step but a further call can bring the rows to the file.
C21_FlushDelayBounded ==
    Unflushed => (TimerDue \/ FlushInProgress)


\* ----------------------------------------------------------------------
\* Claims about failing flushes and shutdown, under SpecTimed.
\* ----------------------------------------------------------------------
\* the Save that the call under observation awaits is rejected in this step
AwaitedSaveRejects ==
    /\ Len(saves') = Len(saves)
    /\ \E i \in 1..Len(saves) :
           /\ saves[i].awaited
           /\ saves[i].pc \in {"mkdir", "write"}
           /\ saves'[i].pc = "rejected"

\* the call under observation, suspended until now, throws in this step
CallRaises == call.op \in Mutations /\ ret.ok /\ ~ret'.ok

\* C22: when the Save forced by an Insert, Update or Delete fails, the
\* call throws the error of Save; from the call to the throw the rows and
\* the indexes stay as the call left them; the failure changes none of
\* dirty, changeCount and lastSaveTime, and when the caller gets the error
\* the table is dirty (or the file already holds its rows).
C22_FlushFailureKeepsChange ==
    [][/\ (call.op \in Mutations /\ CallAwaits) => UNCHANGED <<Data, indexes>>
       /\ AwaitedSaveRejects
            => /\ UNCHANGED <<dirty, changeCount, lastSaveTime>>
               /\ \E i \in 1..Len(saves') :
                      saves'[i].awaited /\ saves'[i].pc = "rejected"
       /\ (/\ Len(saves') < Len(saves)
           /\ \E i \in 1..Len(saves) :
                  /\ saves[i].awaited /\ saves[i].pc = "rejected"
                  /\ saves' = Splice1(saves, i - 1))
            => CallRaises
       /\ CallRaises
            => /\ ret'.value = SaveFailed
               /\ call' = call
               /\ dirty' \/ disk' = Stringify(Data')]_vars


\* a handler of a shutdown event runs in this step
ShutdownStep == call'.op = "flush" /\ call' # call

\* C23: the handler of a shutdown event writes the file only when the
\* table is dirty: on a dirty table it either leaves the file holding the
\* rows of the table and the table clean, or (SaveSync failed) leaves file
\* and flags as they were; on a clean table it writes nothing.  It never
\* throws, and the process goes on to exit.
C23_ShutdownFlushesIfDirty ==
    [][ShutdownStep
         => /\ ret'.ok
            /\ UNCHANGED <<Data, indexes, saves>>
            /\ IF dirty
               THEN \/ /\ disk' = Stringify(Data)
                       /\ ~dirty'
                       /\ changeCount' = 0
                    \/ UNCHANGED <<disk, dirty, changeCount, lastSaveTime,
                                   pendingSaveTimer>>
               ELSE UNCHANGED <<disk, dirty, changeCount, lastSaveTime,
                                pendingSaveTimer>>]_vars

\* SIGINT or SIGTERM has arrived while a Save forced by an Insert was
\* suspended at mkdir: the handler has written both rows
C23_Witness ==
    /\ call.op = "flush"
    /\ ~call.exited
    /\ Len(saves) = 1
    /\ saves[1].pc = "mkdir"
    /\ Len(Data) = 2
    /\ disk = Stringify(Data)
    /\ ~dirty


\* ----------------------------------------------------------------------
\* Claims about the table file, under SpecRoundTrip.
\* ----------------------------------------------------------------------
\* the 0-based positions of the rows of data with value v in column c
PositionsOf(data, c, v) == {i - 1 : i \in {j \in 1..Len(data) : Prop(data[j], c) = v}}

\* idx lists, for every column and value, the positions of the rows with
\* that value, each once
IndexAgrees(idx, data) ==
    \A c \in Cols : \A v \in Vals :
        /\ Range(idx[c][v]) = PositionsOf(data, c, v)
        /\ Len(idx[c][v]) = Cardinality(PositionsOf(data, c, v))

\* C24: LoadSync right after a SaveSync that succeeded yields the rows the
\* table held at the flush, in the same order, and indexes that agree with
\* them.
C24_FlushLoadRoundTrip ==
    [][(call.op = "SaveSync" /\ ret.ok /\ call'.op = "LoadSync")
         => /\ Len(Data') = Len(Data)
            /\ Data' = Data
            /\ IndexAgrees(indexes', Data')]_vars

\* the outcome of call c on table t
Perform(t, c) ==
    CASE c.op = "Insert" -> InsertOp(t, c.Values)
      [] c.op = "Update" -> UpdateOp(t, c.options)
      [] c.op = "Delete" -> DeleteOp(t, c.options)
      [] c.op = "Get" -> GetOp(t, c.options)

\* the listeners of each emitted event, in the order of registration
RECURSIVE Deliveries(_, _, _)
Deliveries(evs, ls, k) ==
    IF k > Len(evs) THEN <<>>
    ELSE [i \in 1..Len(ls[evs[k].type]) |->
             [listener |-> ls[evs[k].type][i], payload |-> evs[k]]]
         \o Deliveries(evs, ls, k + 1)

\* C25: whatever the registered listeners do, throwing included, a call of
\* Insert, Update, Delete or Get has the outcome it has on the same table
\* without listeners: the same result or error, the same rows, indexes and
\* change bookkeeping and the same emitted events; and each emitted event
\* has invoked every listener registered for it, in order.
C25_ListenerFailuresIsolated ==
    [][(call = Idle /\ call'.op \in {"Insert", "Update", "Delete", "Get"})
       => LET quiet == Perform([Self EXCEPT !.listeners = NoListeners], call')
          IN  /\ ret'.ok = quiet.ok
              /\ ret'.value = quiet.value
              /\ Data' = quiet.t.Data
              /\ indexes' = quiet.t.indexes
              /\ dirty' = quiet.t.dirty
              /\ changeCount' = quiet.t.changeCount
              /\ pendingSaveTimer' = quiet.t.pendingSaveTimer
              /\ events' = quiet.events
              /\ [i \in 1..Len(heard') |->
                     [listener |-> heard'[i].listener, payload |-> heard'[i].payload]]
                 = Deliveries(events', listeners, 1)]_vars

\* a Delete of two rows has returned 2 with a throwing listener registered
\* before a second listener: both were invoked for each of the two events
C25_Witness ==
    /\ call.op = "Delete"
    /\ ret.ok
    /\ ret.value = 2
    /\ Data = <<>>
    /\ listeners["delete"] = <<"thrower", "logger">>
    /\ Len(heard) = 4
    /\ heard[1].listener = "thrower"
    /\ heard[2].listener = "logger"
    /\ heard[4].listener = "logger"

\* C26: every listener that a call of Insert, Update or Delete invokes
\* finds in the table the rows the call leaves behind: none is invoked
\* while rows selected by the call are still to be modified or removed.
C26_EventsAfterCompletedOperation ==
    [][(call = Idle /\ call'.op \in Mutations)
       => \A j \in 1..Len(heard') : heard'[j].Data = Data']_vars

\* C27: in every state reached by Insert, Update and Delete calls from a
\* table loaded from a file whose rows have schema columns only, every key
\* of every stored row is a column of the table schema.
C27_RowKeysInSchema ==
    \A i \in 1..Len(Data) : DOMAIN Data[i] \subseteq Cols

\* an Update has patched both rows of the table, after an Update with a
\* key outside the schema could have been tried: every row has every column
C27_Witness ==
    /\ call.op = "Update"
    /\ ret.ok
    /\ ret.value = 2
    /\ Len(Data) = 2
    /\ \A i \in 1..Len(Data) : DOMAIN Data[i] = Cols

\* a Save of the table ends at this step: resolved or rejected
SaveEnds(i, pc) ==
    /\ Len(saves') = Len(saves)
    /\ saves[i].pc \in {"mkdir", "write"}
    /\ saves'[i].pc = pc

\* C28: a Save or SaveSync that succeeds leaves in the file the complete
\* row sequence it serialized, and one that fails at any step leaves the
\* file content as it was before that step.
C28_FlushAllOrNothing ==
    [][/\ \A i \in 1..Len(saves) :
              /\ SaveEnds(i, "resolved") => disk' = saves[i].buf
              /\ SaveEnds(i, "rejected") => disk' = disk
       /\ (call = Idle /\ call'.op = "SaveSync")
              => disk' = IF ret'.ok THEN Stringify(Data) ELSE disk]_vars

\* C29: in every state reached by Insert and Update calls, whose patches
\* may supply null or undefined, every stored row has a value other than
\* null and undefined in every column declared notNull.
C29_NotNullColumnsHold ==
    \A i \in 1..Len(Data) : \A c \in Cols :
        Truthy(Schema[c].NotNull) => Prop(Data[i], c) \notin {NULL, UNDEF}

\* the row the rule of the row validator gives for a value map: per schema
\* column the supplied value, else the default, else null when notNull is
\* false, else no key
CanonicalRow(Values, schema) ==
    [c \in {k \in Cols : \/ k \in DOMAIN Values
                          \/ schema[k].Default # UNDEF
                          \/ schema[k].NotNull = "false"} |->
        IF c \in DOMAIN Values THEN Values[c]
        ELSE IF schema[c].Default # UNDEF THEN schema[c].Default
        ELSE NULL]

\* C30: an Insert that is accepted returns the canonical row of its value
\* map and appends that row to the table; the row has schema columns only.
C30_InsertedRowCanonical ==
    [][(IsCall("Insert") /\ ret'.ok)
       => LET row == CanonicalRow(call'.Values, Schema)
          IN  /\ DOMAIN ret'.value = DOMAIN row
              /\ ret'.value = row
              /\ Data' = Append(Data, row)
              /\ DOMAIN row \subseteq Cols]_vars

\* an Insert without values into a table whose columns both have a default
\* has returned and stored the row of the defaults
C30_Witness ==
    /\ call.op = "Insert"
    /\ call.Values = EmptyObj
    /\ ret.ok
    /\ Schema = SchemaDefault
    /\ ret.value = [ID |-> "1", Email |-> "a@b.com"]
    /\ Data[Len(Data)] = ret.value

\* ----------------------------------------------------------------------
\* Claims about failed flushes, event positions, relationships, listener
\* registration, selection, frames and load.
\* ----------------------------------------------------------------------
\* C31: a Save that fails leaves dirty, changeCount, lastSaveTime and the
\* timer as they were and starts no other Save, and after it the table is
\* still dirty with a threshold reached, unless the file already holds the
\* rows of the table; an Insert, Update or Delete that succeeds on a table
\* in that condition calls Save.
C31_FailedFlushRetriedByNextMutation ==
    [][/\ SaveRejects
            => /\ UNCHANGED <<dirty, changeCount, lastSaveTime, pendingSaveTimer>>
               /\ ThresholdReached' \/ disk' = Stringify(Data')
       /\ ((\E op \in Mutations : IsCall(op)) /\ ret'.ok /\ ThresholdReached)
            => /\ Len(saves') = Len(saves) + 1
               /\ saves'[Len(saves')].pc = "mkdir"]_vars

\* the rows after event e, and whether e reports the position its row has
\* in rows before it
EventFits(rows, e) ==
    CASE e.type = "insert" -> e.index = Len(rows)
      [] e.type = "update" -> /\ e.index \in 0..(Len(rows) - 1)
                              /\ At(rows, e.index) = e.before
                              /\ \A c \in DOMAIN e.after :
                                     e.after[c] = IF c \in DOMAIN e.values
                                                  THEN e.values[c] ELSE e.before[c]
      [] e.type = "delete" -> /\ e.index \in 0..(Len(rows) - 1)
                              /\ At(rows, e.index) = e.row
      [] OTHER -> TRUE
EventApplied(rows, e) ==
    CASE e.type = "insert" -> Append(rows, e.row)
      [] e.type = "update" -> [rows EXCEPT ![e.index + 1] = e.after]
      [] e.type = "delete" -> Splice1(rows, e.index)
      [] OTHER -> rows

\* the events of a call replayed on the rows the call found
RECURSIVE Replay(_, _, _)
Replay(rows, evs, k) ==
    IF k > Len(evs) THEN [ok |-> TRUE, rows |-> rows]
    ELSE IF ~EventFits(rows, evs[k]) THEN [ok |-> FALSE, rows |-> rows]
    ELSE Replay(EventApplied(rows, evs[k]), evs, k + 1)

\* the row of an insert or update event is at the reported position of rows
InPlace(rows, e) ==
    CASE e.type = "insert" -> /\ e.index < Len(rows)
                              /\ At(rows, e.index) = e.row
      [] e.type = "update" -> /\ e.index < Len(rows)
                              /\ At(rows, e.index) = e.after
      [] OTHER -> TRUE

\* C32: the events of an Insert, Update or Delete, taken in order from the
\* rows the call found, each report the position of their row at that
\* point (an insert the position it appends at, an update the position of
\* the row that equals `before` and becomes `after`, the patch applied to
\* before, a delete the position of the removed row after the earlier
\* removals of the call) and lead to the rows the call leaves; and every
\* listener finds the inserted or updated row at the reported position.
C32_EventPositionsAtEmission ==
    [][(call = Idle /\ call'.op \in Mutations)
       => LET replayed == Replay(Data, events', 1)
          IN  /\ replayed.ok
              /\ replayed.rows = Data'
              /\ \A j \in 1..Len(heard') :
                     InPlace(heard'[j].Data, heard'[j].payload)]_vars

\* a Delete has removed both rows of the table and a listener was invoked
\* twice: the second row is reported at position 0, where it was after
\* the first removal
C32_Witness ==
    /\ call.op = "Delete"
    /\ ret.ok
    /\ Len(events) = 2
    /\ events[1].index = 0
    /\ events[2].index = 0
    /\ events[2].row = [ID |-> "2"]
    /\ Len(heard) = 2
    /\ heard[2].Data = <<>>

\* field elem of table refers to this table
RefersHere(DBSchema, table, elem) ==
    /\ DBSchema[table][elem].Reference # NoReference
    /\ DBSchema[table][elem].Reference.Table = Name

\* the position of a field in its table of the schema document
KeyPosition(fields, elem) ==
    CHOOSE i \in 1..Len(ObjectKeys(fields)) : ObjectKeys(fields)[i] = elem

\* C33: after LoadSync(DBSchema) the relationship map has an entry for
\* exactly the tables other than this one that have a field referring to
\* this table; the entry of a table holds the referenced column, the
\* referring field and the ONE/MANY type of the last such field of the
\* table in schema order.
C33_RelationshipMapAfterLoad ==
    call.op = "LoadSync"
    => LET DBSchema == call.DBSchema
       IN  /\ DOMAIN extendRelationships =
                  {table \in (DOMAIN DBSchema) \ {Name} :
                      \E elem \in DOMAIN DBSchema[table] :
                          RefersHere(DBSchema, table, elem)}
           /\ \A table \in DOMAIN extendRelationships :
                  \E elem \in DOMAIN DBSchema[table] :
                      /\ RefersHere(DBSchema, table, elem)
                      /\ \A other \in DOMAIN DBSchema[table] :
                             RefersHere(DBSchema, table, other)
                             => KeyPosition(DBSchema[table], other)
                                    <= KeyPosition(DBSchema[table], elem)
                      /\ extendRelationships[table] =
                             [myColumn |-> DBSchema[table][elem].Reference.Field,
                              targetColumn |-> elem,
                              referenceType |-> DBSchema[table][elem].Reference.Type]

\* the table was loaded with a document in which it refers to itself,
\* Profile does not refer to it, and both fields of Orders and of Reviews
\* do: the entries of Orders and Reviews are those of their second field
C33_Witness ==
    /\ call.op = "LoadSync"
    /\ RefersHere(call.DBSchema, Name, "Email")
    /\ DOMAIN extendRelationships = {"Orders", "Reviews"}
    /\ "Profile" \in DOMAIN call.DBSchema
    /\ RefersHere(call.DBSchema, "Orders", "Buyer")
    /\ extendRelationships["Orders"] =
           [myColumn |-> "Email", targetColumn |-> "Seller", referenceType |-> "MANY"]
    /\ extendRelationships["Reviews"] =
           [myColumn |-> "ID", targetColumn |-> "Subject", referenceType |-> "ONE"]
    /\ Len(Data) = 1

\* C34: a Get with Extend <<"Profile">> alone, under a relationship of
\* type ONE, attaches to every result row whose join value several rows of
\* Profile share a single row, never a list: the last of those rows in
\* the order Profile stores them.
C34_ExtendOneAttachesLastRow ==
    [][(/\ IsCall("Get")
        /\ call'.options = [Extend |-> <<"Profile">>]
        /\ extendRelationships["Profile"].referenceType = "ONE")
       => /\ ret'.ok
          /\ \A j \in 1..Len(ret'.value) :
                LET rel == extendRelationships["Profile"]
                    key == Prop(ret'.value[j], rel.myColumn)
                    sharing == {m \in 1..Len(TablesRef["Profile"]) :
                                   Prop(TablesRef["Profile"][m], rel.targetColumn) = key}
                    attached == ret'.value[j]["$Profile"]
                IN  Cardinality(sharing) >= 2
                    => /\ attached.kind = "object"
                       /\ \E m \in sharing :
                              /\ \A other \in sharing : other <= m
                              /\ attached.val = TablesRef["Profile"][m]]_vars

\* a Get has joined user 1, for whom Profile holds two rows, under a
\* relationship of type ONE: the second of the two rows is attached
C34_Witness ==
    /\ call.op = "Get"
    /\ call.options = [Extend |-> <<"Profile">>]
    /\ ret.ok
    /\ extendRelationships["Profile"].referenceType = "ONE"
    /\ Len(Data) >= 1
    /\ Data[1].ID = "1"
    /\ ret.value[1]["$Profile"] = JsObject([UserID |-> "1", Bio |-> "y"])
    /\ TablesRef["Profile"][1] = [UserID |-> "1", Bio |-> "x"]

\* the listeners that the emissions of events evs invoke from registrations
\* map on, each emission invoking what is registered at its start and a
\* once registration ending with the emission that invokes it; and the
\* registrations left
RECURSIVE Invocations(_, _, _, _)
Invocations(evs, map, k, log) ==
    IF k > Len(evs) THEN [heard |-> log, listeners |-> map]
    ELSE LET entries == map[evs[k].type]
             invoked == [i \in 1..Len(entries) |->
                            [listener |-> Wrapped(entries[i]), payload |-> evs[k]]]
             left == [map EXCEPT ![evs[k].type] =
                         SelectSeq(@, LAMBDA entry : entry \in Listeners)]
         IN  Invocations(evs, left, k + 1, log \o invoked)

\* the number of times an emission of event on the table with the
\* registrations map invokes listener
InvokedBy(map, event, listener) ==
    LET emitted == emit([Self EXCEPT !.listeners = map], [type |-> event])
    IN  Cardinality({i \in 1..Len(emitted.heard) :
                        emitted.heard[i].listener = listener})

\* C35: every emission invokes the listeners registered for its event at
\* its start, each registration once and in order, and a registration made
\* with once ends with the emission that invokes it, whether the listener
\* throws or not; after on(e, l) the Set of e holds l once and an emission
\* of e invokes l; after off(e, l) an emission of e does not invoke l, and
\* after off(e) it invokes no listener.
C35_InvokedWhenRegistered ==
    [][/\ (call = Idle /\ call'.op \in {"Insert", "Update", "Delete", "Get"})
            => LET expected == Invocations(events', listeners, 1, <<>>)
               IN  /\ [i \in 1..Len(heard') |->
                          [listener |-> heard'[i].listener,
                           payload |-> heard'[i].payload]] = expected.heard
                   /\ listeners' = expected.listeners
       /\ (call = Idle /\ call'.op = "on")
            => /\ Cardinality({i \in 1..Len(listeners'[call'.event]) :
                      listeners'[call'.event][i] = call'.listener}) = 1
               /\ InvokedBy(listeners', call'.event, call'.listener) >= 1
       /\ (call = Idle /\ call'.op = "off")
            => IF call'.listener = UNDEF
               THEN \A listener \in Listeners :
                        InvokedBy(listeners', call'.event, listener) = 0
               ELSE InvokedBy(listeners', call'.event, call'.listener) = 0]_vars

\* C36: in every reachable state, for every Matches / Offset / Limit, Get
\* returns exactly the rows that Update and Delete with the same options
\* select, in the same order, which is storage order (ascending position).
C36_GetSelectsWhatUpdateAndDeleteSelect ==
    \A sel \in Selections :
        LET got == GetOp(Self, sel)
            items == SelectItems(Self, sel)
        IN  /\ got.ok
            /\ got.value = [k \in 1..Len(items) |-> Data[items[k]]]
            /\ \A k \in 1..Len(items) - 1 : items[k] < items[k + 1]

\* C37: a Get, whatever its options and whether it returns or raises,
\* leaves the rows, every index bucket, dirty, changeCount, lastSaveTime,
\* the pending timer, the file and the running flushes of this table and
\* the rows of every referenced table unchanged; the only events it emits
\* are get events.
C37_GetIsReadOnly ==
    [][IsCall("Get")
       => /\ TableUnchanged
          /\ UNCHANGED <<TablesRef, extendRelationships, Schema>>
          /\ \A k \in 1..Len(events') : events'[k].type = "get"]_vars

\* a Get sorted by ID descending has returned two rows of a dirty table
\* with a timer pending, in the reverse of their storage order
C37_Witness ==
    /\ call.op = "Get"
    /\ call.options = [OrderBy |-> Desc]
    /\ ret.ok
    /\ dirty
    /\ pendingSaveTimer # NoTimer
    /\ Data = <<[ID |-> "1"], [ID |-> "2"]>>
    /\ ret.value = <<[ID |-> "2"], [ID |-> "1"]>>
    /\ Len(events) = 1

\* the index mutations behind the events of one call: one per schema
\* column for an inserted or a deleted row, one per column whose value
\* changed for an updated row
RECURSIVE IndexMutations(_, _)
IndexMutations(evs, k) ==
    IF k > Len(evs) THEN 0
    ELSE LET e == evs[k]
             here == CASE e.type \in {"insert", "delete"} -> Len(ColumnSeq)
                       [] e.type = "update" ->
                            Cardinality({key \in DOMAIN e.values :
                                Prop(e.before, key) # Prop(e.after, key)})
                       [] OTHER -> 0
         IN  here + IndexMutations(evs, k + 1)

\* C38: in every reachable state dirty is true exactly when changeCount is
\* positive; an Insert, Update or Delete adds to changeCount the number of
\* index mutations it performed, and nothing else changes changeCount but
\* a flush that succeeds, which sets it to 0.
C38_ChangeCountCountsIndexMutations ==
    /\ [](dirty <=> changeCount > 0)
    /\ [][/\ (\E op \in Mutations : IsCall(op))
               => changeCount' = changeCount + IndexMutations(events', 1)
          /\ ~(\E op \in Mutations : IsCall(op))
               => \/ changeCount' = changeCount
                  \/ /\ changeCount' = 0
                     /\ SaveResolves \/ (IsCall("SaveSync") /\ ret'.ok)]_vars

\* an Update of two rows has changed the Email of the second only, the
\* first holding the value already: changeCount is 1 after a flush
C38_Witness ==
    /\ call.op = "Update"
    /\ Len(events) = 2
    /\ events[1].before = events[1].after
    /\ events[2].before # events[2].after
    /\ dirty
    /\ changeCount = 1

\* C39: in every reachable state at most one timeout is set, the one
\* _pendingSaveTimer holds, and only while the table is dirty; a timeout
\* that runs calls Save whatever changeCount is; an Insert, Update or
\* Delete made while a timeout is set sets no other and leaves its due
\* time as it was.
C39_OneFlushTimerWhileDirty ==
    /\ [](Len(timers) <= 1)
    /\ [](timers = IF pendingSaveTimer = NoTimer THEN <<>> ELSE <<pendingSaveTimer>>)
    /\ [](timers # <<>> => dirty)
    /\ [][/\ (/\ Len(timers') < Len(timers)
               /\ ~SaveResolves
               /\ call' = call)
               => /\ Len(saves') = Len(saves) + 1
                  /\ saves'[Len(saves')].pc = "mkdir"
          /\ ((\E op \in Mutations : IsCall(op)) /\ timers # <<>>)
               => timers' = timers /\ pendingSaveTimer' = pendingSaveTimer]_vars

\* an Insert has returned on a table changed before it, since the last
\* flush and at an earlier time: the timeout set by the earlier change is
\* the only one, due one threshold after the last flush
C39_Witness ==
    /\ call.op = "Insert"
    /\ ret.ok
    /\ Len(events) = 1
    /\ changeCount > Len(ColumnSeq)
    /\ changeCount < changeThreshold
    /\ now > lastSaveTime
    /\ timers = <<lastSaveTime + timeThresholdMs>>
    /\ pendingSaveTimer = lastSaveTime + timeThresholdMs

\* a load returns in this step: LoadSync, or Load without or after the
\* Save it awaits
Loaded ==
    /\ ret'.ok
    /\ \/ call.op # "LoadSync" /\ call'.op = "LoadSync"
       \/ IsCall("Load") /\ call'.attempt = 0
       \/ call.op = "Load" /\ call.attempt # 0 /\ call'.op = "Load" /\ call'.attempt = 0

\* an empty bucket map for every schema column
EmptyBuckets(idx) ==
    /\ DOMAIN idx = DOMAIN Schema
    /\ \A column \in DOMAIN idx : \A value \in DOMAIN idx[column] :
           idx[column][value] = <<>>

\* the rows, indexes and file a load leaves for the file it found
LoadedEmpty ==
    /\ call'.file \in {Missing, Unreadable, Truncated}
         => Data' = <<>> /\ EmptyBuckets(indexes') /\ disk' = <<>>
    /\ call'.file = NotArray
         => Data' = <<>> /\ EmptyBuckets(indexes')

\* C40, as stated: a load of a missing, unreadable or unparsable file
\* leaves no rows, an empty bucket map for every schema column and the
\* file rewritten as an empty array; a load of a file that holds no array
\* leaves no rows; in all these cases the table is not dirty after the
\* load.
C40_LoadLeavesCleanTable ==
    [][Loaded => /\ LoadedEmpty
                 /\ ~ParsesToArray(call'.file) => ~dirty']_vars

\* C40, amended: the same rows, indexes and file; the table is not dirty
\* after a load that rewrote the file, and after a load that read the
\* file it is dirty exactly when it was before the load.
C40_LoadKeepsDirtyUnlessRewritten ==
    [][Loaded => /\ LoadedEmpty
                 /\ ResetsFile(call'.file) => ~dirty' /\ changeCount' = 0
                 /\ ~ResetsFile(call'.file)
                      => UNCHANGED <<dirty, changeCount, pendingSaveTimer, disk>>]_vars

\* LoadSync has returned on a table file cut short: no rows, empty
\* buckets for ID and Email, the file rewritten as an empty array
C40_Witness ==
    /\ call.op = "LoadSync"
    /\ call.file = Truncated
    /\ ret.ok
    /\ Data = <<>>
    /\ indexes = buildIndexes(<<>>)
    /\ disk = <<>>
    /\ ~dirty
====
